---- MODULE Spec2Model ----
(***************************************************************************)
(* Galaxy particle generator, rotation-velocity model and curve editor of  *)
(* langhuihui/galaxy (galaxy.js = src/unnamed/part_002, second class;      *)
(* curveEditor.js = src/unnamed/part_003; main.js = src/unnamed/part_001). *)
(*                                                                         *)
(* JavaScript numbers are modelled in fixed point: the integer v stands    *)
(* for the number v / S.  Three values stand for NaN, +Infinity and        *)
(* -Infinity and follow the IEEE rules of the operations the code uses.    *)
(* Every arithmetic operation truncates toward zero.                       *)
(***************************************************************************)
EXTENDS Integers, Sequences, FiniteSets, TLC

\* ------------------------------------------------------------------------
\* Numbers
\* ------------------------------------------------------------------------
S == 10 ^ 3
NaN == 10 ^ 9
PosInf == 9 * (10 ^ 8)
NegInf == 0 - PosInf

IsNaN(x) == x = NaN
IsFinite(x) == x # NaN /\ x # PosInf /\ x # NegInf

Abs(a) == IF a < 0 THEN 0 - a ELSE a
Sgn(a) == IF a < 0 THEN 0 - 1 ELSE IF a > 0 THEN 1 ELSE 0

\* Each operation F(x, y) below evaluates its operands once, as JavaScript
\* does, and applies the value-level operator to the two values.

\* integer quotient truncated toward zero, b # 0
QV(a, b) == Sgn(a) * Sgn(b) * (Abs(a) \div Abs(b))
Q(x, y) == CHOOSE r \in { QV(a, b) : a \in {x}, b \in {y} } : TRUE

\* JS comparison operators: false as soon as one side is NaN
LtV(a, b) == a # NaN /\ b # NaN /\ a < b
FLt(x, y) == CHOOSE r \in { LtV(a, b) : a \in {x}, b \in {y} } : TRUE

LeV(a, b) == a # NaN /\ b # NaN /\ a <= b
FLe(x, y) == CHOOSE r \in { LeV(a, b) : a \in {x}, b \in {y} } : TRUE

FGt(a, b) == FLt(b, a)

NegV(a) == IF a = NaN THEN NaN ELSE 0 - a
FNeg(x) == CHOOSE r \in { NegV(a) : a \in {x} } : TRUE

AddV(a, b) ==
  IF a = NaN \/ b = NaN THEN NaN
  ELSE IF ~IsFinite(a) /\ ~IsFinite(b) THEN (IF a = b THEN a ELSE NaN)
  ELSE IF ~IsFinite(a) THEN a
  ELSE IF ~IsFinite(b) THEN b
  ELSE a + b
FAdd(x, y) == CHOOSE r \in { AddV(a, b) : a \in {x}, b \in {y} } : TRUE

FSub(a, b) == FAdd(a, FNeg(b))

MulV(a, b) ==
  IF a = NaN \/ b = NaN THEN NaN
  ELSE IF ~IsFinite(a) \/ ~IsFinite(b)
       THEN (IF a = 0 \/ b = 0 THEN NaN
             ELSE IF Sgn(a) * Sgn(b) > 0 THEN PosInf ELSE NegInf)
  ELSE Q(a * b, S)
FMul(x, y) == CHOOSE r \in { MulV(a, b) : a \in {x}, b \in {y} } : TRUE

DivV(a, b) ==
  IF a = NaN \/ b = NaN THEN NaN
  ELSE IF ~IsFinite(a) /\ ~IsFinite(b) THEN NaN
  ELSE IF ~IsFinite(a) THEN (IF Sgn(a) * Sgn(b) >= 0 THEN PosInf ELSE NegInf)
  ELSE IF ~IsFinite(b) THEN 0
  ELSE IF b = 0 THEN (IF a = 0 THEN NaN ELSE IF a > 0 THEN PosInf ELSE NegInf)
  ELSE Q(a * S, b)
FDiv(x, y) == CHOOSE r \in { DivV(a, b) : a \in {x}, b \in {y} } : TRUE

\* Math.min / Math.max: NaN as soon as one argument is NaN
MinV(a, b) == IF a = NaN \/ b = NaN THEN NaN ELSE IF a < b THEN a ELSE b
FMin(x, y) == CHOOSE r \in { MinV(a, b) : a \in {x}, b \in {y} } : TRUE

MaxV(a, b) == IF a = NaN \/ b = NaN THEN NaN ELSE IF a > b THEN a ELSE b
FMax(x, y) == CHOOSE r \in { MaxV(a, b) : a \in {x}, b \in {y} } : TRUE

AbsV(a) == IF a = NaN THEN NaN ELSE Abs(a)
FAbs(x) == CHOOSE r \in { AbsV(a) : a \in {x} } : TRUE

\* largest k with k * k <= n, by bisection on [lo, hi)
RECURSIVE ISqrtB(_, _, _)
ISqrtB(n, lo, hi) ==
  IF hi - lo <= 1 THEN lo
  ELSE CHOOSE r \in { IF mid * mid <= n THEN ISqrtB(n, mid, hi) ELSE ISqrtB(n, lo, mid) :
                       mid \in {(lo + hi) \div 2} } : TRUE
ISqrt(n) == ISqrtB(n, 0, 46341)

\* Math.sqrt
SqrtV(a) ==
  IF a = NaN \/ a < 0 THEN NaN
  ELSE IF a = PosInf THEN PosInf
  ELSE ISqrt(a * S)
FSqrt(x) == CHOOSE r \in { SqrtV(a) : a \in {x} } : TRUE

\* Math.log: ln(m * 2^k) = k ln 2 + 2 atanh((m-1)/(m+1)), 1 <= m < 2
Ln2 == 693
RECURSIVE LnR(_, _)
LnR(x, k) ==
  IF x >= 2 * S THEN LnR(x \div 2, k + 1)
  ELSE IF x < S THEN LnR(x * 2, k - 1)
  ELSE LET y == Q((x - S) * S, x + S)
           y2 == Q(y * y, S)
           y3 == Q(y * y2, S)
           y5 == Q(y3 * y2, S)
       IN k * Ln2 + 2 * (y + Q(y3, 3) + Q(y5, 5))
LnV(a) ==
  IF a = NaN \/ a < 0 THEN NaN
  ELSE IF a = 0 THEN NegInf
  ELSE IF a = PosInf THEN PosInf
  ELSE LnR(a, 0)
FLn(x) == CHOOSE r \in { LnV(a) : a \in {x} } : TRUE

\* Math.exp: e^(-t) = (e^(-t/16))^16 with a cubic Taylor polynomial
RECURSIVE SquareN(_, _)
SquareN(v, n) ==
  IF n = 0 THEN v
  ELSE CHOOSE r \in { SquareN(Q(w * w, S), n - 1) : w \in {v} } : TRUE
ExpNeg(t) ==
  IF t >= 7 * S THEN 0
  ELSE LET s == Q(t, 16)
           s2 == Q(s * s, S)
           s3 == Q(s2 * s, S)
       IN SquareN(S - s + Q(s2, 2) - Q(s3, 6), 4)
ExpV(a) ==
  IF a = NaN THEN NaN
  ELSE IF a = PosInf THEN PosInf
  ELSE IF a = NegInf THEN 0
  ELSE IF a <= 0 THEN ExpNeg(0 - a)
  ELSE IF ExpNeg(a) = 0 THEN PosInf
  ELSE Q(S * S, ExpNeg(a))
FExp(x) == CHOOSE r \in { ExpV(a) : a \in {x} } : TRUE

\* Math.PI
PI == 3142
TwoPI == 2 * PI
HalfPI == PI \div 2

\* cos and sin on [0, PI/2] by Taylor polynomials, clamped to [0, 1]
Clamp01(v) == IF v < 0 THEN 0 ELSE IF v > S THEN S ELSE v
CosQ(x) ==
  LET x2 == Q(x * x, S)
      x4 == Q(x2 * x2, S)
      x6 == Q(x4 * x2, S)
  IN Clamp01(S - Q(x2, 2) + Q(x4, 24) - Q(x6, 720))
SinQ(x) ==
  LET x2 == Q(x * x, S)
      x3 == Q(x2 * x, S)
      x5 == Q(x3 * x2, S)
      x7 == Q(x5 * x2, S)
  IN Clamp01(x - Q(x3, 6) + Q(x5, 120) - Q(x7, 5040))
\* cos on [0, 2 PI)
CosR(x) ==
  IF x <= HalfPI THEN CosQ(x)
  ELSE IF x <= PI THEN 0 - CosQ(PI - x)
  ELSE IF x <= PI + HalfPI THEN 0 - CosQ(x - PI)
  ELSE CosQ(TwoPI - x)
SinR(x) ==
  IF x <= HalfPI THEN SinQ(x)
  ELSE IF x <= PI THEN SinQ(PI - x)
  ELSE IF x <= PI + HalfPI THEN 0 - SinQ(x - PI)
  ELSE 0 - SinQ(TwoPI - x)
\* Math.cos, Math.sin
CosV(a) == IF ~IsFinite(a) THEN NaN ELSE CosR(a % TwoPI)
FCos(x) == CHOOSE r \in { CosV(a) : a \in {x} } : TRUE

SinV(a) == IF ~IsFinite(a) THEN NaN ELSE SinR(a % TwoPI)
FSin(x) == CHOOSE r \in { SinV(a) : a \in {x} } : TRUE

\* atan on [0, 1]: q PI/4 + 0.273 q (1 - q)
AtanU(q) == Q(q * (PI \div 4), S) + Q(273 * Q(q * (S - q), S), S)
\* atan2 for y >= 0, x >= 0, not both 0
AtanQ(y, x) ==
  IF y <= x THEN AtanU(Q(y * S, x)) ELSE HalfPI - AtanU(Q(x * S, y))
\* Math.atan2 for finite arguments, NaN for a NaN argument
Atan2V(y, x) ==
  IF y = NaN \/ x = NaN THEN NaN
  ELSE IF ~IsFinite(y) \/ ~IsFinite(x)
       THEN (IF ~IsFinite(y) /\ ~IsFinite(x)
               THEN Sgn(y) * (IF x > 0 THEN PI \div 4 ELSE PI - PI \div 4)
             ELSE IF ~IsFinite(y) THEN Sgn(y) * HalfPI
             ELSE IF x > 0 THEN 0 ELSE (IF y < 0 THEN 0 - PI ELSE PI))
  ELSE IF x = 0 /\ y = 0 THEN 0
  ELSE IF x >= 0 /\ y >= 0 THEN AtanQ(y, x)
  ELSE IF x < 0 /\ y >= 0 THEN PI - AtanQ(y, 0 - x)
  ELSE IF x < 0 THEN AtanQ(0 - y, 0 - x) - PI
  ELSE 0 - AtanQ(0 - y, x)
FAtan2(x, y) == CHOOSE r \in { Atan2V(a, b) : a \in {x}, b \in {y} } : TRUE

\* Math.pow(b, p) for b >= 0: exact for the exponents 0, 1/4, 1/2, 1, 2,
\* exp(p ln b) otherwise
PowV(b, p) ==
  IF p = 0 THEN S
  ELSE IF b = NaN \/ p = NaN THEN NaN
  ELSE IF p = S THEN b
  ELSE IF p = 2 * S THEN FMul(b, b)
  ELSE IF p = S \div 2 THEN FSqrt(b)
  ELSE IF p = S \div 4 THEN FSqrt(FSqrt(b))
  ELSE IF b = 0 THEN (IF p > 0 THEN 0 ELSE PosInf)
  ELSE FExp(FMul(p, FLn(b)))

FPow(x, y) == CHOOSE r \in { PowV(a, b) : a \in {x}, b \in {y} } : TRUE

\* ------------------------------------------------------------------------
\* Bounds of the model
\* ------------------------------------------------------------------------
\* largest particle count of a parameter set
MaxCount == 2
\* number of generate() calls on one Galaxy (the constructor's and
\* createGalaxy's)
MaxCalls == 2

\* the delay of the rebuild timer, in units of 100 ms
rebuildDelay == 3
\* number of createGalaxy() calls of the WebGPU application in one run
MaxGalaxies == 3

\* ------------------------------------------------------------------------
\* State
\* ------------------------------------------------------------------------
VARIABLES
  args,            \* the object passed to the Galaxy constructor
  parameters,      \* this.parameters
  rotationParams,  \* this.rotationParams
  geometry,        \* attributes published on this.geometry
  pc,              \* position of the control in constructor / generate()
  i,               \* particle index of generate()
  radius, angle,   \* locals of one loop iteration
  shouldKeep,      \* local of one loop iteration: the outcome of the arm filter
  attempts, accepted, maxProbability,   \* locals of the rejection sampling
  positions, colors, sizes, distances, angles,
  rotationSpeeds, haloSizes, brightnesses,  \* the typed arrays of generate()
  calls,           \* generate() calls started on this Galaxy
  rng,             \* the random source behind Math.random()
  first,           \* attributes published by the first generate() call of a
                   \* run with an injected random sequence
  controlPoints,   \* CurveEditor.controlPoints of the two editors
  probe,           \* last evaluation of a pure function: inputs and result
  selectedPoint,   \* CurveEditor.selectedPoint of the two editors (0 for null)
  isDragging,      \* CurveEditor.isDragging of the two editors
  rebuildTimeout,  \* GalaxySimulation.rebuildTimeout: the pending rebuild timer
  timerLeft,       \* time until the pending rebuild timer is due, in 100 ms
  sinceChange,     \* time since the last parameter or curve change, in 100 ms,
                   \* up to the delay of the rebuild timer
  built,           \* createGalaxy() calls since the present burst of changes
                   \* began; at start-up, the call of the application's
                   \* constructor
  held,            \* a curve function a caller obtained from getCurve() and kept
  material,        \* uniforms of this.material
  timeOffset,      \* this.timeOffset
  frame,           \* what the vertex shader displayed at the last frame of the
                   \* current geometry
  thrown,          \* the exception that ended the last call, if any
  alloc,           \* identity of the typed arrays generate() is writing into
  firstId,         \* identity of the typed arrays recorded in first
  galaxy,          \* WebGPU application: this.galaxy, as the number of the
                   \* GalaxyWebGPU instance (0 before the first)
  corePoints,      \* this.corePoints and this.haloSprites of each instance: the
                   \* number of the generate() completion that made them (0 for
                   \* null)
  pendingGenerate, \* generate() calls that have not completed
  resolved,        \* .then callbacks of completed generate() calls still to run
  layers,          \* the Points and sprite Group made by each completion: the
                   \* instance they belong to, and whether the sprites are there
  parentOf,        \* the Group that holds each of them (0 for none)
  groups,          \* the instance of each Group made by getPoints()
  scene            \* the Groups that are children of the scene

genVars == <<pc, i, radius, angle, shouldKeep, attempts, accepted, maxProbability,
             positions, colors, sizes, distances, angles,
             rotationSpeeds, haloSizes, brightnesses, calls, rng, first,
             geometry>>
timerVars == <<timerLeft, sinceChange, built>>
uiVars == <<selectedPoint, isDragging, rebuildTimeout, held, timerVars>>
matVars == <<material, timeOffset, frame>>
gpuVars == <<galaxy, corePoints, pendingGenerate, resolved, layers, parentOf, groups,
             scene>>
heapVars == <<alloc, firstId, gpuVars>>
extVars == <<uiVars, matVars, heapVars, thrown>>
vars == <<args, parameters, rotationParams, controlPoints, probe, genVars, extVars>>

\* ------------------------------------------------------------------------
\* CurveEditor (curveEditor.js)
\* ------------------------------------------------------------------------
\* CurveEditor.binomialCoefficient
RECURSIVE BinomLoop(_, _, _, _)
BinomLoop(n, k, j, result) ==
  IF j >= k THEN result ELSE BinomLoop(n, k, j + 1, (result * (n - j)) \div (j + 1))
binomialCoefficient(n, k) ==
  IF k < 0 \/ k > n THEN 0
  ELSE IF k = 0 \/ k = n THEN 1
  ELSE BinomLoop(n, k, 0, 1)

\* Math.pow(b, k) for an integer k >= 0; Math.pow(x, 0) is 1 for every x
RECURSIVE PowI(_, _)
PowI(b, k) == IF k = 0 THEN S ELSE FMul(b, PowI(b, k - 1))

\* CurveEditor.bezierPoint, the y coordinate: the Bernstein sum over the
\* control points
RECURSIVE BezierSum(_, _, _, _)
BezierSum(t, points, j, acc) ==
  LET n == Len(points) - 1
  IN IF j > n THEN acc
     ELSE LET term == FMul(FMul(binomialCoefficient(n, j) * S, PowI(FSub(S, t), n - j)),
                           PowI(t, j))
          IN BezierSum(t, points, j + 1, FAdd(acc, FMul(points[j + 1].y, term)))
\* a mutant: the sum started at the second control point
bezierPointYFromOne(t, points) == BezierSum(t, points, 1, 0)

\* bezierPoint(t, points).y
bezierPointY(t, points) == BezierSum(t, points, 0, 0)

\* a mutant: the function without its first test, so that an input outside
\* [0,1] is clamped to the nearer end of the curve
getCurveClampedInput(points, x) ==
  LET t == FMax(0, FMin(S, x))
      y == bezierPointY(t, points)
  IN IF IsNaN(y) THEN 0 ELSE FMax(0, FMin(S, y))

\* the function returned by CurveEditor.getCurve(), applied to x with the
\* control points the editor holds at the time of the call
getCurve(points, x) ==
  IF IsNaN(x) \/ FLt(x, 0) \/ FGt(x, S) THEN 0
  ELSE LET t == FMax(0, FMin(S, x))
           y == bezierPointY(t, points)
       IN IF IsNaN(y) THEN 0 ELSE FMax(0, FMin(S, y))

\* ------------------------------------------------------------------------
\* Curve functions handed to the Galaxy
\* ------------------------------------------------------------------------
NoFn == [kind |-> "none"]
\* createGalaxy(): the editor's curve remapped to [lo, hi]
EditorFn(ed, lo, hi) == [kind |-> "editor", ed |-> ed, lo |-> lo, hi |-> hi]
\* a caller-supplied function that returns v everywhere
ConstFn(v) == [kind |-> "const", v |-> v]
\* a caller-supplied function that returns v at x = at and 0 elsewhere
SpikeFn(at, v) == [kind |-> "spike", at |-> at, v |-> v]

\* fn(x)
ApplyFn(fn, x) ==
  IF fn.kind = "editor"
    THEN FAdd(fn.lo, FMul(getCurve(controlPoints[fn.ed], x), FSub(fn.hi, fn.lo)))
  ELSE IF fn.kind = "const" THEN fn.v
  ELSE IF fn.kind = "spike" THEN (IF x = fn.at THEN fn.v ELSE 0)
  ELSE NaN

\* ------------------------------------------------------------------------
\* Galaxy.constructor
\* ------------------------------------------------------------------------
Defaults ==
  [count |-> 50000, size |-> 10 * S, radius |-> 5 * S, armCount |-> 3,
   randomness |-> S \div 2,
   insideColor |-> <<1000, 376, 188>>, outsideColor |-> <<106, 224, 518>>,
   glowIntensity |-> 2 * S, haloSize |-> S \div 2, densityPower |-> S \div 4,
   armTightness |-> S, armDensity |-> 2 * S, armWidth |-> 300,
   rotationCurveFn |-> NoFn, densityCurveFn |-> NoFn,
   viscosity |-> 0, cloudRatio |-> 80, cloudHaloMultiplier |-> 3 * S,
   randomBrightness |-> TRUE, brightnessRange |-> <<600, 1400>>,
   rotationDirection |-> S, rotationSpeedMax |-> 0]

\* the parameters that hold a number
NumberFields ==
  DOMAIN Defaults \ {"insideColor", "outsideColor", "rotationCurveFn", "densityCurveFn",
                     "randomBrightness", "brightnessRange"}

\* a mutant: the defaults "x || d" without the trailing "...parameters"
ConstructorNoSpread(a) ==
  [f \in DOMAIN Defaults |->
     IF f \in DOMAIN a /\ (f \notin NumberFields \/ a[f] \notin {0, NaN})
       THEN a[f] ELSE Defaults[f]]

\* this.parameters = { f: parameters.f || default, ..., ...parameters }:
\* the spread at the end overrides every default with the supplied value,
\* falsy or not.  rotationSpeedMax has no default: 0 stands for "absent".
Constructor(a) ==
  [f \in DOMAIN Defaults |-> IF f \in DOMAIN a THEN a[f] ELSE Defaults[f]]

\* this.rotationParams
RotationParams(a) ==
  [rPeak |-> 2 * S, rFlat |-> 8 * S,
   vMax |-> IF "rotationSpeedMax" \in DOMAIN a /\ a.rotationSpeedMax \notin {0, NaN}
              THEN a.rotationSpeedMax ELSE 220 * S,
   scale |-> 100]


\* ------------------------------------------------------------------------
\* Galaxy.calculateRotationSpeed
\* ------------------------------------------------------------------------
\* the loop over the arms: the smallest angular distance to an arm centerline
RECURSIVE MinAngleDist(_, _, _, _, _, _)
MinAngleDist(ang, spiralAngle, branchAngle, armCount, arm, acc) ==
  IF arm >= armCount THEN acc
  ELSE LET armAngle == FAdd(spiralAngle, FMul(branchAngle, arm * S))
           d0 == FAbs(FSub(ang, armAngle))
           angleDiff == FMin(d0, FSub(TwoPI, d0))
       IN MinAngleDist(ang, spiralAngle, branchAngle, armCount, arm + 1,
                       FMin(acc, angleDiff))

\* armInfluence of calculateRotationSpeed
ArmInfluence(r, ang, p) ==
  LET spiralAngle == FMul(FLn(FAdd(r, 100)), p.armTightness)
      branchAngle == FDiv(TwoPI, p.armCount * S)
      minAngleDist == MinAngleDist(ang, spiralAngle, branchAngle, p.armCount, 0, PosInf)
      normalizedAngleDist == FDiv(minAngleDist, FDiv(PI, p.armCount * S))
      w == FDiv(normalizedAngleDist, FMul(p.armWidth, 700))
  IN FExp(FNeg(FMul(w, w)))

\* the effective vMax of the closed form
VMaxOf(p) == IF p.rotationSpeedMax \in {0, NaN} THEN 220 * S ELSE p.rotationSpeedMax

\* a mutant: the falloff region without the square root
BaseSpeedNoSqrt(r, p, rp) ==
  LET rScaled == FDiv(r, rp.scale)
      maxRadiusKpc == FDiv(p.radius, rp.scale)
      normalizedR == FMin(S, FDiv(rScaled, maxRadiusKpc))
      vMax == VMaxOf(p)
  IN IF p.rotationCurveFn.kind # "none" THEN ApplyFn(p.rotationCurveFn, normalizedR)
     ELSE IF FLt(rScaled, rp.rPeak) THEN FMul(vMax, FDiv(rScaled, rp.rPeak))
     ELSE IF FLt(rScaled, rp.rFlat) THEN vMax
     ELSE FMul(vMax, FDiv(rp.rFlat, rScaled))

\* the base speed: the rotation curve function, or the closed form
BaseSpeed(r, p, rp) ==
  LET rScaled == FDiv(r, rp.scale)
      maxRadiusKpc == FDiv(p.radius, rp.scale)
      normalizedR == FMin(S, FDiv(rScaled, maxRadiusKpc))
      vMax == VMaxOf(p)
  IN IF p.rotationCurveFn.kind # "none" THEN ApplyFn(p.rotationCurveFn, normalizedR)
     ELSE IF FLt(rScaled, rp.rPeak) THEN FMul(vMax, FDiv(rScaled, rp.rPeak))
     ELSE IF FLt(rScaled, rp.rFlat) THEN vMax
     ELSE FMul(vMax, FSqrt(FDiv(rp.rFlat, rScaled)))

\* a mutant: viscosityFactor = 1.0 + viscosity * armInfluence
ViscosityFactorSpeedsUp(r, ang, p) == FAdd(S, FMul(p.viscosity, ArmInfluence(r, ang, p)))

\* viscosityFactor = 1.0 - viscosity * armInfluence
ViscosityFactor(r, ang, p) == FSub(S, FMul(p.viscosity, ArmInfluence(r, ang, p)))

\* the guard of the viscosity correction
ViscosityApplies(p) == FGt(p.viscosity, 0) /\ p.armCount > 0

\* a mutant: the final check without the clamp
ClampSpeedMissing(speed) == speed

\* the final check: NaN or negative gives 0
ClampSpeed(speed) == IF IsNaN(speed) \/ FLt(speed, 0) THEN 0 ELSE speed

\* a mutant: the arm correction 1 - armInfluence applied whenever the galaxy
\* has arms, whatever the viscosity
CorrectedSpeedWhateverViscosity(r, ang, p, rp) ==
  IF p.armCount > 0
    THEN FMul(BaseSpeed(r, p, rp), FSub(S, ArmInfluence(r, ang, p)))
    ELSE BaseSpeed(r, p, rp)

\* speed before the final check: the base speed, multiplied by the viscosity
\* factor when the correction applies
CorrectedSpeed(r, ang, p, rp) ==
  IF ViscosityApplies(p)
    THEN FMul(BaseSpeed(r, p, rp), ViscosityFactor(r, ang, p))
    ELSE BaseSpeed(r, p, rp)

\* the value calculateRotationSpeed returns for the values r and ang
RotationSpeedAt(r, ang, p, rp) ==
  IF IsNaN(r) \/ FLt(r, 0) THEN 0
  ELSE ClampSpeed(CorrectedSpeed(r, ang, p, rp))

\* calculateRotationSpeed(r, angle): the arguments are evaluated once, as at
\* a call
calculateRotationSpeed(r0, ang0, p, rp) ==
  CHOOSE v \in { RotationSpeedAt(r, ang, p, rp) : r \in {r0}, ang \in {ang0} } : TRUE


\* ------------------------------------------------------------------------
\* The random source
\* ------------------------------------------------------------------------
\* Values Math.random() returns at each call site (it never returns 1).
\* u2 avoids the quarter turns, where the fixed-point cosine is exactly 0
\* while Math.cos never is.
RadiusDraws == {0, 500, 999}
AcceptDraws == {0, 999}
AngleDraws == {0, 400}
KeepDraws == {0, 999}
U1Draws == {0, 500}
U2Draws == {0}
JitterXDraws == {0, 999}
JitterYDraws == {500}
JitterZDraws == {999}
SizeDraws == {999}
CloudDraws == {0, 999}
HaloDraws == {500}
BrightnessDraws == {0}

\* the values the k-th Math.random() call of a step may return: any value
\* of the call site, or the next value of an injected sequence
Draws(D, k) ==
  IF rng.mode = "seq"
    THEN {rng.seq[((rng.pos + k) % Len(rng.seq)) + 1]}
    ELSE D
\* the random source after n calls
Advance(n) ==
  IF rng.mode = "seq"
    THEN [rng EXCEPT !.pos = (@ + n) % Len(rng.seq)]
    ELSE rng

\* ------------------------------------------------------------------------
\* Galaxy.generate
\* ------------------------------------------------------------------------
NoGeometry == [set |-> FALSE]
NoFrame == [set |-> FALSE]
\* largest number of array sets allocated before the last rebuild of a run
MaxBuffers == 4

\* a mutant: the arrays of the earlier call used again
ReusedBufferId(id) == id

\* new Float32Array(...): arrays no earlier call has seen
NewBufferId(id) == id + 1

Zeros(n) == [k \in 1..n |-> 0]

\* a mutant: the particle index kept from the previous call
BeginIndexKept == i

\* let i = 0
BeginIndex == 0

\* a mutant: the 3-vectors allocated with count * 2 entries
VectorLengthShort(count) == count * 2

\* new Float32Array(this.parameters.count * 3)
VectorLength(count) == count * 3

\* generate(), up to the particle loop: a new geometry and zero-filled arrays.
\* Called by the constructor and again by createGalaxy().
BeginGenerate ==
  /\ \/ pc = "constructed"
     \/ pc = "done" /\ calls < MaxCalls
  /\ parameters.count >= 0
  /\ calls' = calls + 1
  /\ alloc' = NewBufferId(alloc)
  /\ geometry' = NoGeometry
  /\ positions' = Zeros(VectorLength(parameters.count))
  /\ colors' = Zeros(VectorLength(parameters.count))
  /\ sizes' = Zeros(parameters.count)
  /\ distances' = Zeros(parameters.count)
  /\ angles' = Zeros(parameters.count)
  /\ rotationSpeeds' = Zeros(parameters.count)
  /\ haloSizes' = Zeros(parameters.count)
  /\ brightnesses' = Zeros(parameters.count)
  /\ i' = BeginIndex
  /\ radius' = 0 /\ angle' = 0 /\ shouldKeep' = TRUE
  /\ attempts' = 0 /\ accepted' = FALSE /\ maxProbability' = 0
  /\ rng' = IF rng.mode = "seq" THEN [rng EXCEPT !.pos = 0] ELSE rng
  /\ pc' = "loop"
  /\ frame' = NoFrame
  /\ UNCHANGED <<uiVars, material, timeOffset, firstId, gpuVars, thrown, args, parameters,
                 rotationParams, controlPoints, probe, first>>

\* generate() with a negative count: new Float32Array(count * 3) throws a
\* RangeError after the new, empty geometry is stored; nothing catches it
AllocationFails ==
  /\ \/ pc = "constructed"
     \/ pc = "done" /\ calls < MaxCalls
  /\ parameters.count < 0
  /\ calls' = calls + 1
  /\ geometry' = NoGeometry
  /\ thrown' = "RangeError"
  /\ pc' = "thrown"
  /\ frame' = NoFrame
  /\ UNCHANGED <<shouldKeep, args, parameters, rotationParams, controlPoints, probe, first,
                 uiVars, material, timeOffset, heapVars, i, radius, angle, attempts, accepted,
                 maxProbability, positions, colors, sizes, distances, angles,
                 rotationSpeeds, haloSizes, brightnesses, rng>>

\* the scan of the density curve at 0.01, 0.02, ..., 1.00: the running
\* Math.max, which starts at 0 and is NaN once a probability is NaN
ScanMax(fn) ==
  LET probabilities == { FMul(ApplyFn(fn, FDiv(k * S, 100 * S)), FDiv(k * S, 100 * S))
                         : k \in 1..100 }
  IN IF NaN \in probabilities THEN NaN
     ELSE CHOOSE m \in probabilities \cup {0} :
            \A q \in probabilities \cup {0} : q <= m
\* maxProbability, floored at 0.001
MaxProbability(fn) == FMax(ScanMax(fn), 1)

maxAttempts == 100

\* acceptProbability of one candidate
AcceptProbability(fn, candidateRadiusNorm, maxP) ==
  LET densityAtRadius == ApplyFn(fn, candidateRadiusNorm)
      rNormForProbability == FMax(candidateRadiusNorm, 1)
      probabilityDensity == FMul(densityAtRadius, rNormForProbability)
  IN FMin(S, FDiv(probabilityDensity, maxP))

\* while (i < count), density curve supplied: the precomputation before the
\* rejection loop
DensityScan ==
  /\ pc = "loop" /\ i < parameters.count
  /\ parameters.densityCurveFn.kind # "none"
  /\ maxProbability' = MaxProbability(parameters.densityCurveFn)
  /\ attempts' = 0 /\ accepted' = FALSE
  /\ shouldKeep' = TRUE
  /\ pc' = "reject"
  /\ UNCHANGED <<extVars, args, parameters, rotationParams, controlPoints, probe, first, geometry,
                 i, radius, angle, positions, colors, sizes, distances, angles,
                 rotationSpeeds, haloSizes, brightnesses, calls, rng>>

\* a mutant: the loop without the attempts bound
MayAttemptUnbounded == ~accepted

\* while (!accepted && attempts < maxAttempts)
MayAttempt == ~accepted /\ attempts < maxAttempts

\* a mutant: the attempt counter never incremented
NextAttemptsStuck(a) == a

\* attempts++
NextAttempts(a) == a + 1

\* one pass of the rejection loop: a candidate and an acceptance draw
RejectionAttempt ==
  /\ pc = "reject" /\ MayAttempt
  /\ \E c \in Draws(RadiusDraws, 0), u \in Draws(AcceptDraws, 1) :
        LET ok == FLt(u, AcceptProbability(parameters.densityCurveFn, c, maxProbability))
        IN /\ attempts' = NextAttempts(attempts)
           /\ accepted' = ok
           /\ radius' = IF ok THEN FMul(c, parameters.radius) ELSE radius
  /\ rng' = Advance(2)
  /\ UNCHANGED <<shouldKeep, extVars, args, parameters, rotationParams, controlPoints, probe, first, geometry,
                 pc, i, angle, maxProbability, positions, colors, sizes, distances,
                 angles, rotationSpeeds, haloSizes, brightnesses, calls>>

\* the rejection loop left with an accepted candidate; the locals of the
\* sampling block go out of scope
RadiusAccepted ==
  /\ pc = "reject" /\ accepted
  /\ pc' = "angle"
  /\ attempts' = 0 /\ accepted' = FALSE /\ maxProbability' = 0
  /\ UNCHANGED <<shouldKeep, extVars, args, parameters, rotationParams, controlPoints, probe, first, geometry,
                 i, radius, angle, positions,
                 colors, sizes, distances, angles, rotationSpeeds, haloSizes,
                 brightnesses, calls, rng>>

\* if (!accepted) radius = Math.random() * this.parameters.radius
RadiusFallback ==
  /\ pc = "reject" /\ ~MayAttempt /\ ~accepted
  /\ \E u \in Draws(RadiusDraws, 0) : radius' = FMul(u, parameters.radius)
  /\ rng' = Advance(1)
  /\ pc' = "angle"
  /\ attempts' = 0 /\ accepted' = FALSE /\ maxProbability' = 0
  /\ UNCHANGED <<shouldKeep, extVars, args, parameters, rotationParams, controlPoints, probe, first, geometry,
                 i, angle, positions, colors,
                 sizes, distances, angles, rotationSpeeds, haloSizes, brightnesses,
                 calls>>

\* no density curve: radius = (1 - (1 - U)^densityPower) * params.radius
PowerRadius ==
  /\ pc = "loop" /\ i < parameters.count
  /\ parameters.densityCurveFn.kind = "none"
  /\ \E u \in Draws(RadiusDraws, 0) :
        radius' = FMul(FSub(S, FPow(FSub(S, u), parameters.densityPower)),
                       parameters.radius)
  /\ rng' = Advance(1)
  /\ shouldKeep' = TRUE
  /\ pc' = "angle"
  /\ UNCHANGED <<extVars, args, parameters, rotationParams, controlPoints, probe, first, geometry,
                 i, angle, attempts, accepted, maxProbability, positions, colors,
                 sizes, distances, angles, rotationSpeeds, haloSizes, brightnesses,
                 calls>>


\* armInfluence of the acceptance filter (the same formula as in
\* calculateRotationSpeed, on the unjittered radius and angle)
FilterArmInfluence(r, ang, p) ==
  LET spiralAngle == FMul(FLn(FAdd(r, 100)), p.armTightness)
      branchAngle == FDiv(TwoPI, p.armCount * S)
      minAngleDist == MinAngleDist(ang, spiralAngle, branchAngle, p.armCount, 0, PosInf)
      normalizedAngleDist == FDiv(minAngleDist, FDiv(PI, p.armCount * S))
      w == FDiv(normalizedAngleDist, FMul(p.armWidth, 700))
  IN FExp(FNeg(FMul(w, w)))

\* keepProb = min(1, 0.15 + (densityBoost - 1) * 0.8 + 0.2)
KeepProb(r, ang, p) ==
  LET densityBoost == FAdd(S, FMul(FSub(p.armDensity, S), FilterArmInfluence(r, ang, p)))
  IN FMin(S, FAdd(FAdd(150, FMul(FSub(densityBoost, S), 800)), 200))

\* a mutant: the filter applied whatever the arm count
FilterEnabledAlways(p) == FGt(p.armDensity, S)

\* if (armCount > 0 && armDensity > 1.0)
FilterEnabled(p) == p.armCount > 0 /\ FGt(p.armDensity, S)

\* a mutant: a rejected candidate placed like a kept one
AfterFilterNoContinue(keep) == "place"

\* if (!shouldKeep) continue
AfterFilter(keep) == IF keep THEN "place" ELSE "loop"

\* the angle draw and the spiral-arm acceptance filter; a rejected candidate
\* restarts the loop iteration with the same i ("continue")
AngleAndFilter ==
  /\ pc = "angle"
  /\ \E ua \in Draws(AngleDraws, 0) :
        LET ang == FMul(FMul(ua, PI), 2 * S)
        IN IF FilterEnabled(parameters)
             THEN \E uk \in Draws(KeepDraws, 1) :
                    LET keep == FLe(uk, KeepProb(radius, ang, parameters))
                    IN /\ shouldKeep' = keep
                       /\ pc' = AfterFilter(keep)
                       /\ angle' = IF keep THEN ang ELSE 0
                       /\ radius' = IF keep THEN radius ELSE 0
                       /\ rng' = Advance(2)
             ELSE /\ shouldKeep' = TRUE
                  /\ pc' = "place"
                  /\ angle' = ang
                  /\ radius' = radius
                  /\ rng' = Advance(1)
  /\ UNCHANGED <<extVars, args, parameters, rotationParams, controlPoints, probe, first, geometry,
                 i, attempts, accepted, maxProbability, positions, colors, sizes,
                 distances, angles, rotationSpeeds, haloSizes, brightnesses, calls>>

\* THREE.Color.lerp on one channel: c += (target - c) * alpha
LerpChannel(c, target, alpha) == FAdd(c, FMul(FSub(target, c), alpha))

\* x, y, z, the jitter, distance, angle, rotation speed and color of
\* particle i
Place ==
  /\ pc = "place"
  /\ \E u1 \in Draws(U1Draws, 0), u2 \in Draws(U2Draws, 1),
        ux \in Draws(JitterXDraws, 2), uy \in Draws(JitterYDraws, 3),
        uz \in Draws(JitterZDraws, 4) :
        LET p == parameters
            x == FMul(radius, FCos(angle))
            z == FMul(radius, FSin(angle))
            gaussian == FMul(FSqrt(FMul(0 - 2 * S, FLn(u1))),
                             FCos(FMul(FMul(2 * S, PI), u2)))
            diskThickness == 300
            y == FMul(FMul(gaussian, diskThickness),
                      FSub(S, FMul(FDiv(radius, p.radius), 500)))
            randomX == FMul(FMul(FSub(ux, 500), p.randomness), 100)
            randomY == FMul(FMul(FSub(uy, 500), p.randomness), 50)
            randomZ == FMul(FMul(FSub(uz, 500), p.randomness), 100)
            px == FAdd(x, randomX)
            py == FAdd(y, randomY)
            pz == FAdd(z, randomZ)
            distance == FSqrt(FAdd(FMul(px, px), FMul(pz, pz)))
            finalAngle == FAtan2(pz, px)
            alpha == FDiv(distance, p.radius)
            i3 == i * 3
        IN /\ positions' = [positions EXCEPT ![i3 + 1] = px, ![i3 + 2] = py,
                                             ![i3 + 3] = pz]
           /\ distances' = [distances EXCEPT ![i + 1] = distance]
           /\ angles' = [angles EXCEPT ![i + 1] = finalAngle]
           /\ rotationSpeeds' = [rotationSpeeds EXCEPT ![i + 1] =
                  calculateRotationSpeed(distance, finalAngle, p, rotationParams)]
           /\ colors' = [colors EXCEPT
                  ![i3 + 1] = LerpChannel(p.insideColor[1], p.outsideColor[1], alpha),
                  ![i3 + 2] = LerpChannel(p.insideColor[2], p.outsideColor[2], alpha),
                  ![i3 + 3] = LerpChannel(p.insideColor[3], p.outsideColor[3], alpha)]
  /\ rng' = Advance(5)
  /\ radius' = 0 /\ angle' = 0
  /\ pc' = "attrs"
  /\ UNCHANGED <<shouldKeep, extVars, args, parameters, rotationParams, controlPoints, probe, first, geometry,
                 i, attempts, accepted, maxProbability, sizes, haloSizes,
                 brightnesses, calls>>

\* size, halo size and brightness of particle i, then i++
Attributes ==
  /\ pc = "attrs"
  /\ \E us \in Draws(SizeDraws, 0), uc \in Draws(CloudDraws, 1) :
        LET p == parameters
            baseSize == p.size
            sizeVariation == FMul(baseSize, 300)
            isCloud == FLt(uc, p.cloudRatio)
            range == FSub(p.brightnessRange[2], p.brightnessRange[1])
        IN /\ sizes' = [sizes EXCEPT ![i + 1] =
                          FAdd(baseSize, FMul(FSub(us, 500), sizeVariation))]
           /\ IF isCloud
                THEN /\ haloSizes' = [haloSizes EXCEPT ![i + 1] =
                                        FMul(p.haloSize, p.cloudHaloMultiplier)]
                     /\ IF p.randomBrightness
                          THEN \E ub \in Draws(BrightnessDraws, 2) :
                                 /\ brightnesses' = [brightnesses EXCEPT ![i + 1] =
                                      FMul(FAdd(p.brightnessRange[1], FMul(ub, range)),
                                           2500)]
                                 /\ rng' = Advance(3)
                          ELSE /\ brightnesses' = [brightnesses EXCEPT ![i + 1] = 2500]
                               /\ rng' = Advance(2)
                ELSE \E uh \in Draws(HaloDraws, 2) :
                     /\ haloSizes' = [haloSizes EXCEPT ![i + 1] =
                                        FMul(p.haloSize, FAdd(800, FMul(uh, 400)))]
                     /\ IF p.randomBrightness
                          THEN \E ub \in Draws(BrightnessDraws, 3) :
                                 /\ brightnesses' = [brightnesses EXCEPT ![i + 1] =
                                      FAdd(p.brightnessRange[1], FMul(ub, range))]
                                 /\ rng' = Advance(4)
                          ELSE /\ brightnesses' = [brightnesses EXCEPT ![i + 1] = S]
                               /\ rng' = Advance(3)
  /\ i' = i + 1
  /\ pc' = "loop"
  /\ UNCHANGED <<shouldKeep, extVars, args, parameters, rotationParams, controlPoints, probe, first, geometry,
                 radius, angle, attempts, accepted, maxProbability, positions,
                 colors, distances, angles, rotationSpeeds, calls>>

\* a[k]; a read past the end of a typed array gives undefined, which isNaN
\* takes for NaN
At(a, k) == IF k \in DOMAIN a THEN a[k] ELSE NaN

\* a mutant: each NaN component of a 3-vector repaired on its own
RepairVectorsByComponent(a, n, default) ==
  [k \in 1..Len(a) |->
     IF (k - 1) \div 3 < n /\ IsNaN(a[k]) THEN default ELSE a[k]]

\* the repair of a 3-vector array: a vector with a NaN component is replaced
\* whole by the default
RepairVectors(a, n, default) ==
  [k \in 1..Len(a) |->
     LET b == ((k - 1) \div 3) * 3
     IN IF (k - 1) \div 3 < n
             /\ (IsNaN(At(a, b + 1)) \/ IsNaN(At(a, b + 2)) \/ IsNaN(At(a, b + 3)))
          THEN default ELSE a[k]]

\* a mutant: every scalar array repaired with 0
RepairScalarsWithZero(a, n, default) ==
  [k \in 1..Len(a) |-> IF k - 1 < n /\ IsNaN(a[k]) THEN 0 ELSE a[k]]

\* a mutant: the repair of a scalar array left out
RepairScalarsMissing(a, n, default) == a

\* the repair of a scalar array
RepairScalars(a, n, default) ==
  [k \in 1..Len(a) |-> IF k - 1 < n /\ IsNaN(a[k]) THEN default ELSE a[k]]

\* the NaN sanitation pass after the particle loop
Sanitize ==
  /\ pc = "loop" /\ ~(i < parameters.count)
  /\ positions' = RepairVectors(positions, parameters.count, 0)
  /\ colors' = RepairVectors(colors, parameters.count, 500)
  /\ sizes' = RepairScalars(sizes, parameters.count, parameters.size)
  /\ distances' = RepairScalars(distances, parameters.count, 0)
  /\ angles' = RepairScalars(angles, parameters.count, 0)
  /\ rotationSpeeds' = RepairScalars(rotationSpeeds, parameters.count, 0)
  /\ haloSizes' = RepairScalars(haloSizes, parameters.count, parameters.haloSize)
  /\ brightnesses' = RepairScalars(brightnesses, parameters.count, S)
  /\ pc' = "publish"
  /\ UNCHANGED <<shouldKeep, extVars, args, parameters, rotationParams, controlPoints, probe, first, geometry,
                 i, radius, angle, attempts, accepted, maxProbability, calls, rng>>

\* what a holder of the attributes "published" reads from them: the arrays
\* of identity id are the ones generate() is writing when id = alloc
SeenThrough(id, published) ==
  IF published.set /\ id = alloc
    THEN [set |-> TRUE, position |-> positions, color |-> colors, size |-> sizes,
          distance |-> distances, angle |-> angles, rotationSpeed |-> rotationSpeeds,
          haloSize |-> haloSizes, brightness |-> brightnesses]
    ELSE published

NoMaterial == [set |-> FALSE]
\* x || d
OrDefault(x, d) == IF x = 0 \/ IsNaN(x) THEN d ELSE x
\* a mutant: a material that always starts clockwise
NewMaterialClockwise(p) ==
  [set |-> TRUE, uTime |-> 0, uTimeOffset |-> 0,
   uGlowIntensity |-> OrDefault(p.glowIntensity, 2 * S),
   uHaloSize |-> OrDefault(p.haloSize, S \div 2),
   uRotationDirection |-> S]

\* new THREE.ShaderMaterial({uniforms: ...})
NewMaterial(p) ==
  [set |-> TRUE, uTime |-> 0, uTimeOffset |-> 0,
   uGlowIntensity |-> OrDefault(p.glowIntensity, 2 * S),
   uHaloSize |-> OrDefault(p.haloSize, S \div 2),
   uRotationDirection |-> OrDefault(p.rotationDirection, S)]

\* geometry.setAttribute(...) for the eight arrays, then the new material
Publish ==
  /\ pc = "publish"
  /\ geometry' = [set |-> TRUE, position |-> positions, color |-> colors,
                  size |-> sizes, distance |-> distances, angle |-> angles,
                  rotationSpeed |-> rotationSpeeds, haloSize |-> haloSizes,
                  brightness |-> brightnesses]
  /\ first' = IF calls = 1 /\ rng.mode = "seq" THEN geometry' ELSE first
  /\ firstId' = IF calls = 1 /\ rng.mode = "seq" THEN alloc ELSE firstId
  /\ material' = NewMaterial(parameters)
  /\ pc' = "done"
  /\ UNCHANGED <<shouldKeep, uiVars, timeOffset, frame, alloc, gpuVars, thrown, args, parameters, rotationParams, controlPoints, probe, i, radius, angle,
                 attempts, accepted, maxProbability, positions, colors, sizes,
                 distances, angles, rotationSpeeds, haloSizes, brightnesses,
                 calls, rng>>


\* ------------------------------------------------------------------------
\* Evaluations of the pure functions
\* ------------------------------------------------------------------------
NoProbe == [fn |-> "none"]
NoHeld == [set |-> FALSE]

\* radii and angles calculateRotationSpeed is called with
ProbeRadii == {0, 50, 100, 200, 500, 800, 900, 3200, 5000, 6000, 0 - 100, NaN, PosInf}
ProbeAngles == {0, 1000, 0 - 2000, 3142}

\* a call of galaxy.calculateRotationSpeed(r, angle)
EvalRotationSpeed ==
  /\ pc = "pure"
  /\ \E r \in ProbeRadii, a \in ProbeAngles :
        probe' = [fn |-> "speed", r |-> r, angle |-> a,
                  result |-> calculateRotationSpeed(r, a, parameters, rotationParams)]
  /\ UNCHANGED <<extVars, args, parameters, rotationParams, controlPoints, genVars>>

\* ------------------------------------------------------------------------
\* Control points of the curve editors
\* ------------------------------------------------------------------------
\* largest number of control points of a curve
MaxPoints == 4

Pt(x, y) == [x |-> x, y |-> y]
\* GalaxySimulation.DEFAULT_PARAMS.rotationCurvePoints / densityCurvePoints
DefaultCurvePoints == <<Pt(0, S), Pt(200, 200), Pt(200, 100), Pt(S, 0)>>
Editors == {"rotation", "density"}

CurveYs == {0, 700}
\* control-point lists with first.x = 0 and last.x = 1
PointLists ==
  UNION { { [k \in 1..n |-> Pt(IF k = 1 THEN 0 ELSE IF k = n THEN S ELSE 500, ys[k])]
            : ys \in [1..n -> CurveYs] } : n \in 2..MaxPoints }

\* control-point lists whose y leave [0,1] or are not numbers
WildLists ==
  {<<Pt(0, 2 * S), Pt(S, 3 * S)>>, <<Pt(0, 0 - S), Pt(S, 0 - 500)>>,
   <<Pt(0, NaN), Pt(S, 0)>>, <<Pt(0, 0), Pt(500, 5 * S), Pt(S, 0)>>}

\* inputs the curve function is called with
CurveInputs == {0, 250, 500, S, 0 - 100, 1500, NaN}

\* CurveEditor.setControlPoints(points)
SetControlPoints ==
  /\ pc = "pure"
  /\ \E ed \in Editors, pts \in PointLists \cup WildLists :
        controlPoints' = [controlPoints EXCEPT ![ed] = pts]
  /\ probe' = NoProbe
  /\ UNCHANGED <<extVars, args, parameters, rotationParams, genVars>>

\* a call editor.getCurve()(x)
EvalCurve ==
  /\ pc = "pure"
  /\ \E ed \in Editors, x \in CurveInputs :
        probe' = [fn |-> "curve", ed |-> ed, x |-> x,
                  points |-> controlPoints[ed],
                  result |-> getCurve(controlPoints[ed], x)]
  /\ UNCHANGED <<extVars, args, parameters, rotationParams, controlPoints, genVars>>

\* ------------------------------------------------------------------------
\* Constructor arguments
\* ------------------------------------------------------------------------
\* the scenario {count, radius: 5, armCount: 0, randomness: 0, densityPower: 1}
ScenarioArgs ==
  [count |-> MaxCount, radius |-> 5 * S, armCount |-> 0, randomness |-> 0,
   densityPower |-> S]
\* no arms, a dense-arm setting that must stay without effect, default jitter
NoArmsArgs == [count |-> 1, armCount |-> 0, armDensity |-> 5 * S]
\* two arms with viscosity, the closed-form rotation curve
ArmsArgs == [count |-> 1, armCount |-> 2, viscosity |-> 500, randomness |-> 0]
\* the defaults, one particle
DefaultArgs == [count |-> 1]
\* a density curve that is 0 except for a spike at 0.5
SpikeArgs ==
  [count |-> 1, armCount |-> 0, randomness |-> 0,
   densityCurveFn |-> SpikeFn(500, S)]
\* a density curve that is 0 everywhere, with the arm filter enabled
ZeroDensityArgs ==
  [count |-> 1, armCount |-> 2, randomness |-> 0,
   densityCurveFn |-> ConstFn(0)]
\* the curves of the two editors, remapped as createGalaxy() does
EditorArgs ==
  [count |-> 1, armCount |-> 3, randomness |-> 0, viscosity |-> 300,
   rotationSpeedMax |-> 150 * S,
   rotationCurveFn |-> EditorFn("rotation", 0, 150 * S),
   densityCurveFn |-> EditorFn("density", 0, 2 * S)]
\* a jitter magnitude that is not a number
NaNJitterArgs == [count |-> MaxCount, armCount |-> 0, randomness |-> NaN]

\* a brightness range that starts below 0
DimArgs ==
  [count |-> 1, armCount |-> 0, randomness |-> 0, brightnessRange |-> <<0 - S, S>>]

GenerateArgs ==
  {ScenarioArgs, NoArmsArgs, ArmsArgs, DefaultArgs, SpikeArgs, ZeroDensityArgs,
   EditorArgs, NaNJitterArgs, DimArgs}

\* ------------------------------------------------------------------------
\* Specifications
\* ------------------------------------------------------------------------
\* the state in the constructor after this.parameters and this.rotationParams
\* are set, before generate() is called
InitWith(argSets, sources, start, lists) ==
  /\ args \in argSets
  /\ parameters = Constructor(args)
  /\ rotationParams = RotationParams(args)
  /\ rng \in sources
  /\ pc = start
  /\ geometry = NoGeometry /\ first = NoGeometry
  /\ i = 0 /\ radius = 0 /\ angle = 0 /\ shouldKeep = TRUE
  /\ attempts = 0 /\ accepted = FALSE /\ maxProbability = 0
  /\ positions = <<>> /\ colors = <<>> /\ sizes = <<>> /\ distances = <<>>
  /\ angles = <<>> /\ rotationSpeeds = <<>> /\ haloSizes = <<>>
  /\ brightnesses = <<>>
  /\ calls = 0
  /\ controlPoints \in [Editors -> lists]
  /\ probe = NoProbe
  /\ selectedPoint = [ed \in Editors |-> 0]
  /\ isDragging = [ed \in Editors |-> FALSE]
  /\ rebuildTimeout = "none"
  /\ timerLeft = 0 /\ sinceChange = rebuildDelay /\ built = 1
  /\ held = NoHeld
  /\ material = NoMaterial /\ timeOffset = 0 /\ frame = NoFrame
  /\ thrown = "none"
  /\ alloc = 0 /\ firstId = 0
  /\ galaxy = 0 /\ corePoints = [g \in 1..MaxGalaxies |-> 0]
  /\ pendingGenerate = {} /\ resolved = {}
  /\ layers = <<>> /\ parentOf = <<>> /\ groups = <<>> /\ scene = {}

\* the same with the default control points in both editors
InitGalaxy(argSets, sources, start) ==
  InitWith(argSets, sources, start, {DefaultCurvePoints})

FreeSource == [mode |-> "free"]

Init == InitGalaxy(GenerateArgs, {FreeSource}, "constructed")

Next ==
  \/ BeginGenerate
  \/ DensityScan
  \/ RejectionAttempt
  \/ RadiusAccepted
  \/ RadiusFallback
  \/ PowerRadius
  \/ AngleAndFilter
  \/ Place
  \/ Attributes
  \/ Sanitize
  \/ Publish

Spec == Init /\ [][Next]_vars


\* generate() under an injected random sequence: every Math.random() call
\* returns the next value of a fixed cyclic sequence, and each generate()
\* call starts at the head of the sequence
InjectedSequences == {<<0>>, <<0, 500, 999>>, <<999, 0>>, <<500, 999, 0, 0, 500>>}
SeqSources == {[mode |-> "seq", seq |-> q, pos |-> 0] : q \in InjectedSequences}
InitSeq == InitGalaxy(GenerateArgs, SeqSources, "constructed")
SpecSeq == InitSeq /\ [][Next]_vars

\* a density curve that is 0 except for a spike the scan at 0.01 steps misses,
\* with the arm filter enabled
OffGridSpikeArgs ==
  [count |-> 1, armCount |-> 2, randomness |-> 0,
   densityCurveFn |-> SpikeFn(999, S)]
\* the power-law radius with the arm filter enabled
PowerLawArgs == [count |-> MaxCount, armCount |-> 2, randomness |-> 0]
\* a density curve that returns Infinity everywhere, with the arm filter
\* enabled
InfiniteDensityArgs ==
  [count |-> 1, armCount |-> 2, randomness |-> 0,
   densityCurveFn |-> ConstFn(PosInf)]
TerminationArgs ==
  {SpikeArgs, OffGridSpikeArgs, ZeroDensityArgs, PowerLawArgs, InfiniteDensityArgs}
InitTermination == InitGalaxy(TerminationArgs, {FreeSource}, "constructed")

\* a candidate that passes the spiral-arm filter
CandidateKept == AngleAndFilter /\ pc' = "place"

\* Math.random() draws are independent: a draw that passes the filter is not
\* avoided forever when the filter can be passed again and again
FairSpec ==
  InitTermination /\ [][Next]_vars /\ WF_vars(Next) /\ SF_vars(CandidateKept)

\* the same configurations without the fairness conditions
SpecSampling == InitTermination /\ [][Next]_vars

\* calculateRotationSpeed as a function of its inputs
HighViscosityArgs == [count |-> 1, armCount |-> 2, viscosity |-> 1500]
NaNCurveArgs == [count |-> 1, rotationCurveFn |-> ConstFn(NaN)]
NegativeCurveArgs == [count |-> 1, viscosity |-> 500, rotationCurveFn |-> ConstFn(0 - 50 * S)]
SlowArgs == [count |-> 1, armCount |-> 2, armWidth |-> 800, rotationSpeedMax |-> 150 * S]
FlatCurveArgs == [count |-> 1, armCount |-> 2, rotationCurveFn |-> ConstFn(180 * S)]
NoArmsViscousArgs == [count |-> 1, armCount |-> 0, viscosity |-> 500]
FullViscosityArgs == [count |-> 1, armCount |-> 2, viscosity |-> S]
RotationArgs ==
  {ScenarioArgs, DefaultArgs, ArmsArgs, EditorArgs, HighViscosityArgs, NaNCurveArgs,
   NegativeCurveArgs, SlowArgs, FlatCurveArgs, NoArmsViscousArgs, FullViscosityArgs}
InitRot == InitGalaxy(RotationArgs, {FreeSource}, "pure")
NextRot == EvalRotationSpeed
SpecRot == InitRot /\ [][NextRot]_vars

\* the curve function of an editor as a function of the control points
InitCurve == InitGalaxy({DefaultArgs}, {FreeSource}, "pure")
NextCurve ==
  \/ SetControlPoints
  \/ EvalCurve
SpecCurve == InitCurve /\ [][NextCurve]_vars

\* configurations whose arithmetic leaves the finite numbers:
\* radius 0 (0 / 0 in the disk thickness, a division by 0 in the color
\* interpolation, which is NaN for the channel the two colors share)
ZeroRadiusArgs ==
  [count |-> 1, radius |-> 0, armCount |-> 0, randomness |-> 20 * S,
   insideColor |-> <<S, 0, 0>>, outsideColor |-> <<S, S, S>>]
\* a size, a cloud halo multiplier and a brightness range that are not numbers
NaNAttributeArgs ==
  [count |-> 1, armCount |-> 0, randomness |-> 0, size |-> NaN,
   cloudHaloMultiplier |-> NaN, brightnessRange |-> <<NaN, S>>]
NonFiniteArgs == {NaNJitterArgs, ZeroRadiusArgs, NaNAttributeArgs}
InitRepair == InitGalaxy(NonFiniteArgs, {FreeSource}, "constructed")
\* none of these configurations has a density curve
NextRepair ==
  \/ BeginGenerate
  \/ PowerRadius
  \/ AngleAndFilter
  \/ Place
  \/ Attributes
  \/ Sanitize
  \/ Publish
SpecRepair == InitRepair /\ [][NextRepair]_vars

\* configurations with radius <= 0 or count <= 0
DegenerateArgs ==
  {[count |-> 0], [count |-> 0 - 1],
   [count |-> 1, radius |-> 0, armCount |-> 0],
   [count |-> 1, radius |-> 0 - 5 * S, armCount |-> 2, randomness |-> 0],
   [count |-> 1, radius |-> 0, armCount |-> 0, densityCurveFn |-> SpikeFn(500, S)],
   [count |-> 1, radius |-> 0, armCount |-> 2, densityCurveFn |-> ConstFn(0)]}
InitDegenerate == InitGalaxy(DegenerateArgs, {FreeSource}, "constructed")
NextDegenerate ==
  \/ Next
  \/ AllocationFails
SpecDegenerate == InitDegenerate /\ [][NextDegenerate]_vars

\* ------------------------------------------------------------------------
\* Mouse events of the curve editors and the rebuild they schedule
\* ------------------------------------------------------------------------
\* this.width and this.height of an editor whose init() ran on the canvas of
\* the displayed dialog
canvasWidth == 30 * S
canvasHeight == 30 * S

\* screenToNormalized(x, y), from the position relative to the canvas
screenToNormalized(localX, localY) ==
  Pt(FMax(0, FMin(S, FDiv(localX, canvasWidth))),
     FMax(0, FMin(S, FSub(S, FDiv(localY, canvasHeight)))))

\* normalizedToScreen(x, y)
normalizedToScreen(x, y) == Pt(FMul(x, canvasWidth), FMul(FSub(S, y), canvasHeight))

\* the loop of findNearestPoint from index k on; 0 stands for null
RECURSIVE NearestFrom(_, _, _, _, _)
NearestFrom(points, at, k, minDist, nearest) ==
  IF k > Len(points) THEN nearest
  ELSE LET screenP == normalizedToScreen(points[k].x, points[k].y)
           screenPointPos == normalizedToScreen(at.x, at.y)
           dx == FSub(screenP.x, screenPointPos.x)
           dy == FSub(screenP.y, screenPointPos.y)
           dist == FSqrt(FAdd(FMul(dx, dx), FMul(dy, dy)))
       IN IF FLt(dist, 15 * S) /\ FLt(dist, minDist)
            THEN NearestFrom(points, at, k + 1, dist, k)
            ELSE NearestFrom(points, at, k + 1, minDist, nearest)

\* findNearestPoint(x, y)
findNearestPoint(points, localX, localY) ==
  NearestFrom(points, screenToNormalized(localX, localY), 1, PosInf, 0)

\* a mutant: handlers that run in the middle of a generate() call
EventsMayRunAnytime == TRUE

\* JavaScript runs each handler to completion: an event or a timer is served
\* only when no call is on the stack, that is before or after the whole of
\* createGalaxy() (the constructor's generate() and the one that follows)
EventsMayRun == pc = "pure" \/ (pc = "done" /\ calls >= 2)

\* "if (this.galaxy)" in the onUpdate callbacks
GalaxyExists == pc # "pure"

\* positions of the mouse relative to the canvas
Mouse(x, y) == [x |-> x * S, y |-> y * S]

\* CurveEditor.onMouseDown(e)
onMouseDown(positions0) ==
  /\ EventsMayRun
  /\ \E ed \in Editors, e \in positions0 :
        LET nearest == findNearestPoint(controlPoints[ed], e.x, e.y)
        IN /\ nearest # 0
           /\ selectedPoint' = [selectedPoint EXCEPT ![ed] = nearest]
           /\ isDragging' = [isDragging EXCEPT ![ed] = TRUE]
  /\ UNCHANGED <<args, parameters, rotationParams, controlPoints, probe, genVars,
                 rebuildTimeout, timerVars, held, matVars, heapVars, thrown>>

\* a mutant: a drag that stores the mouse position for every point
DraggedPointFree(points, selected, e) == screenToNormalized(e.x, e.y)

\* the point onMouseMove stores: the first point keeps x = 0, the last x = 1
DraggedPoint(points, selected, e) ==
  LET point == screenToNormalized(e.x, e.y)
  IN IF selected = 1 THEN Pt(0, point.y)
     ELSE IF selected = Len(points) THEN Pt(S, point.y)
     ELSE point

\* clearTimeout(this.rebuildTimeout);
\* this.rebuildTimeout = setTimeout(() => { this.createGalaxy(); }, 300)
ScheduleRebuild == rebuildTimeout' = "pending" /\ timerLeft' = rebuildDelay

\* the user changes a parameter or a curve: the change opens a burst when
\* the change before it is 300 ms old or older
NoteChange ==
  /\ sinceChange' = 0
  /\ built' = IF sinceChange >= rebuildDelay THEN 0 ELSE built

\* options.onUpdate(curveFn) of the editor ed: the raw curve function replaces
\* the galaxy's and the rebuild timer is restarted
onUpdate(ed) ==
  /\ IF GalaxyExists
       THEN /\ parameters' =
                 IF ed = "rotation"
                   THEN [parameters EXCEPT !.rotationCurveFn = EditorFn(ed, 0, S)]
                   ELSE [parameters EXCEPT !.densityCurveFn = EditorFn(ed, 0, S)]
            /\ ScheduleRebuild
       ELSE UNCHANGED <<parameters, rebuildTimeout, timerLeft>>
  /\ NoteChange

\* CurveEditor.onMouseMove(e) while a point is dragged
onMouseMove(positions0) ==
  /\ EventsMayRun
  /\ \E ed \in Editors, e \in positions0 :
        /\ isDragging[ed] /\ selectedPoint[ed] # 0
        /\ controlPoints' = [controlPoints EXCEPT ![ed][selectedPoint[ed]] =
                               DraggedPoint(controlPoints[ed], selectedPoint[ed], e)]
        /\ onUpdate(ed)
  /\ UNCHANGED <<args, rotationParams, probe, genVars, selectedPoint, isDragging,
                 held, matVars, heapVars, thrown>>

\* CurveEditor.onMouseUp(e), also the handler of mouseleave
onMouseUp ==
  /\ EventsMayRun
  /\ \E ed \in Editors :
        /\ isDragging' = [isDragging EXCEPT ![ed] = FALSE]
        /\ selectedPoint' = [selectedPoint EXCEPT ![ed] = 0]
  /\ UNCHANGED <<args, parameters, rotationParams, controlPoints, probe, genVars,
                 rebuildTimeout, timerVars, held, matVars, heapVars, thrown>>

\* CurveEditor.setControlPoints(points) on a generated galaxy's editor
setControlPoints(lists) ==
  /\ EventsMayRun
  /\ \E ed \in Editors, pts \in lists :
        controlPoints' = [controlPoints EXCEPT ![ed] = pts]
  /\ UNCHANGED <<args, parameters, rotationParams, probe, genVars, extVars>>

\* createGalaxy() up to the end of the Galaxy constructor's assignments: the
\* old galaxy is disposed of and a new one made from the values of the
\* controls
createGalaxy ==
  /\ pc = "done" /\ calls >= 2
  /\ alloc < MaxBuffers
  /\ parameters' = Constructor(args)
  /\ rotationParams' = RotationParams(args)
  /\ geometry' = NoGeometry
  /\ material' = NoMaterial /\ timeOffset' = 0 /\ frame' = NoFrame
  /\ calls' = 0
  /\ pc' = "constructed"
  /\ i' = 0 /\ radius' = 0 /\ angle' = 0 /\ shouldKeep' = TRUE
  /\ attempts' = 0 /\ accepted' = FALSE /\ maxProbability' = 0
  /\ positions' = <<>> /\ colors' = <<>> /\ sizes' = <<>> /\ distances' = <<>>
  /\ angles' = <<>> /\ rotationSpeeds' = <<>> /\ haloSizes' = <<>>
  /\ brightnesses' = <<>>
  /\ UNCHANGED <<controlPoints, probe, selectedPoint, isDragging, held,
                 heapVars, thrown, rng, first>>

\* the rebuild timer fires, at a time the model leaves open
RebuildFires ==
  /\ rebuildTimeout = "pending"
  /\ rebuildTimeout' = "none" /\ timerLeft' = 0
  /\ built' = built + 1
  /\ createGalaxy
  /\ UNCHANGED <<args, sinceChange>>

\* the application: a galaxy built from the two editors' curves, edited and
\* rebuilt.  createGalaxy() always passes a density curve function, so the
\* power-law radius of generate() is never taken.
AppLists == {<<Pt(0, 0), Pt(S, S)>>}
AppMouseDown == onMouseDown({Mouse(0, 0)})
AppMouseMove == onMouseMove({Mouse(15, 15)})
AppSetControlPoints == setControlPoints(AppLists)
InitApp == InitGalaxy({EditorArgs}, {FreeSource}, "constructed")
NextApp ==
  \/ BeginGenerate
  \/ DensityScan
  \/ RejectionAttempt
  \/ RadiusAccepted
  \/ RadiusFallback
  \/ AngleAndFilter
  \/ Place
  \/ Attributes
  \/ Sanitize
  \/ Publish
  \/ AppMouseDown
  \/ AppMouseMove
  \/ onMouseUp
  \/ AppSetControlPoints
  \/ RebuildFires
SpecApp == InitApp /\ [][NextApp]_vars

\* the rebuild timer is due: its callback runs before any later event
TimerDue == rebuildTimeout = "pending" /\ timerLeft = 0

\* an event of the user on the page of a built galaxy
UserEventMayRun == EventsMayRun /\ GalaxyExists /\ ~TimerDue

\* 100 ms pass with no event
Tick ==
  /\ UserEventMayRun
  /\ rebuildTimeout = "pending" \/ sinceChange < rebuildDelay
  /\ timerLeft' = IF rebuildTimeout = "pending" THEN timerLeft - 1 ELSE timerLeft
  /\ sinceChange' = IF sinceChange < rebuildDelay THEN sinceChange + 1 ELSE sinceChange
  /\ UNCHANGED <<args, parameters, rotationParams, controlPoints, probe, genVars,
                 selectedPoint, isDragging, rebuildTimeout, built, held, matVars,
                 heapVars, thrown>>

\* the rebuild timer fires 300 ms after it was started
TimerFires == TimerDue /\ RebuildFires

\* 'input' on the particle count slider; the handlers of the other sliders,
\* checkboxes and colour inputs that createGalaxy() reads restart the timer in
\* the same way
SliderInput ==
  /\ UserEventMayRun
  /\ \E count \in {1, MaxCount} : args' = [args EXCEPT !.count = count]
  /\ ScheduleRebuild
  /\ NoteChange
  /\ UNCHANGED <<parameters, rotationParams, controlPoints, probe, genVars,
                 selectedPoint, isDragging, held, matVars, heapVars, thrown>>

\* 'click' on the reset button: resetParameters() puts the controls back to
\* the defaults and calls createGalaxy() itself; rebuildTimeout is not
\* touched
ResetClick ==
  /\ UserEventMayRun
  /\ args' = EditorArgs
  /\ sinceChange' = 0
  /\ built' = (IF sinceChange >= rebuildDelay THEN 0 ELSE built) + 1
  /\ createGalaxy
  /\ UNCHANGED <<rebuildTimeout, timerLeft>>

\* a curve change: a drag of the first control point of an editor
CurveMouseDown == UserEventMayRun /\ onMouseDown({Mouse(0, 0)})
CurveMouseMove == UserEventMayRun /\ onMouseMove({Mouse(15, 15)})

\* the application under changes of its controls, with the time between
\* them; Math.random() returns an injected sequence
DebounceSources == {[mode |-> "seq", seq |-> <<500, 0>>, pos |-> 0]}
InitDebounce == InitGalaxy({EditorArgs}, DebounceSources, "constructed")
NextDebounce ==
  \/ BeginGenerate
  \/ DensityScan
  \/ RejectionAttempt
  \/ RadiusAccepted
  \/ AngleAndFilter
  \/ Place
  \/ Attributes
  \/ Sanitize
  \/ Publish
  \/ Tick
  \/ TimerFires
  \/ SliderInput
  \/ ResetClick
  \/ CurveMouseDown
  \/ CurveMouseMove
SpecDebounce == InitDebounce /\ [][NextDebounce]_vars

\* an editor under mouse events alone: mousedown on the first, an inner and
\* the last point of the default curve, moves inside and outside the canvas
DragStartLists == {DefaultCurvePoints, <<Pt(0, 0), Pt(S, S)>>}
DragMouseDown == onMouseDown({Mouse(0, 0), Mouse(6, 24), Mouse(30, 30)})
DragMouseMove == onMouseMove({Mouse(0 - 5, 10), Mouse(40, 40)})
InitDrag == InitWith({DefaultArgs}, {FreeSource}, "pure", DragStartLists)
NextDrag ==
  \/ DragMouseDown
  \/ DragMouseMove
  \/ onMouseUp
SpecDrag == InitDrag /\ [][NextDrag]_vars

\* ------------------------------------------------------------------------
\* Animation frames and the setters of a generated galaxy
\* ------------------------------------------------------------------------
\* largest |timeOffset|, in seconds, at which the model still changes the
\* direction
MaxTimeOffset == 4

\* elapsed times of the animation clock, which never runs backwards
Times == {0, S}

\* a mutant: update() that sets uTime alone
UpdatedUniformsTimeOnly(m, elapsedTime, offset) == [m EXCEPT !.uTime = elapsedTime]

\* update(elapsedTime): uTime and uTimeOffset
UpdatedUniforms(m, elapsedTime, offset) ==
  [m EXCEPT !.uTime = elapsedTime, !.uTimeOffset = offset]

\* the vertex shader on particle k: the rotated position in polar form
ShaderVertex(k, geo, m) ==
  LET x == geo.position[3 * (k - 1) + 1]
      y == geo.position[3 * (k - 1) + 2]
      z == geo.position[3 * (k - 1) + 3]
      speedInSceneUnits == FMul(geo.rotationSpeed[k], 10)
      adjustedTime == FAdd(m.uTime, m.uTimeOffset)
  IN [angle |-> FAdd(geo.angle[k],
                     FMul(FMul(adjustedTime, speedInSceneUnits), m.uRotationDirection)),
      radius |-> FSqrt(FAdd(FMul(x, x), FMul(z, z))),
      y |-> y]

\* a mutant: a draw that stores the rotated angles as the particles' angles
DrawnAttributesRotated(geo, m) ==
  [geo EXCEPT !.angle = [k \in DOMAIN geo.angle |-> ShaderVertex(k, geo, m).angle]]

\* the attribute arrays after a draw: the shader reads its attributes and
\* writes gl_Position, gl_PointSize and its varyings only
DrawnAttributes(geo, m) == geo

\* one frame of animate(): galaxy.update(elapsedTime), then the draw, whose
\* vertex shader runs on every particle
Frame ==
  /\ EventsMayRun /\ material.set
  /\ \E t \in Times :
        /\ frame.set => t >= frame.elapsedTime
        /\ material' = UpdatedUniforms(material, t, timeOffset)
        /\ frame' = [set |-> TRUE, elapsedTime |-> t, timeOffset |-> timeOffset,
                     rotationDirection |-> parameters.rotationDirection,
                     shown |-> [k \in 1..parameters.count |->
                                  ShaderVertex(k, geometry, material')]]
        /\ geometry' = DrawnAttributes(geometry, material')
  /\ UNCHANGED <<shouldKeep, args, parameters, rotationParams, controlPoints, probe,
                 uiVars, timeOffset, heapVars, thrown, pc, i, radius, angle,
                 attempts, accepted, maxProbability, positions, colors, sizes,
                 distances, angles, rotationSpeeds, haloSizes, brightnesses,
                 calls, rng, first>>

\* setRotationSpeed(speed)
SetRotationSpeed ==
  /\ EventsMayRun /\ material.set
  /\ \E speed \in {0} : material' = [material EXCEPT !.uTime = FMul(@, speed)]
  /\ UNCHANGED <<args, parameters, rotationParams, controlPoints, probe, genVars,
                 uiVars, timeOffset, frame, heapVars, thrown>>

\* setGlowIntensity(intensity)
SetGlowIntensity ==
  /\ EventsMayRun /\ material.set
  /\ \E intensity \in {3 * S} : material' = [material EXCEPT !.uGlowIntensity = intensity]
  /\ UNCHANGED <<args, parameters, rotationParams, controlPoints, probe, genVars,
                 uiVars, timeOffset, frame, heapVars, thrown>>

\* setHaloSize(size)
SetHaloSize ==
  /\ EventsMayRun /\ material.set
  /\ \E size \in {S} : material' = [material EXCEPT !.uHaloSize = size]
  /\ UNCHANGED <<args, parameters, rotationParams, controlPoints, probe, genVars,
                 uiVars, timeOffset, frame, heapVars, thrown>>

\* a mutant: the time offset kept at a change of direction
NewTimeOffsetKept(currentTime, currentOffset, oldDirection, direction) == currentOffset

\* the time offset setRotationDirection computes at a change of direction
NewTimeOffset(currentTime, currentOffset, oldDirection, direction) ==
  FSub(FDiv(FAdd(FMul(currentTime, oldDirection), FMul(currentOffset, oldDirection)),
            direction),
       currentTime)

\* setRotationDirection(direction)
SetRotationDirection ==
  /\ EventsMayRun /\ material.set
  /\ Abs(timeOffset) <= MaxTimeOffset * S
  /\ \E direction \in {S, 0 - S} :
        LET oldDirection == OrDefault(parameters.rotationDirection, S)
        IN /\ timeOffset' = IF oldDirection # direction
                              THEN NewTimeOffset(material.uTime, timeOffset,
                                                 oldDirection, direction)
                              ELSE timeOffset
           /\ parameters' = [parameters EXCEPT !.rotationDirection = direction]
           /\ material' = [material EXCEPT !.uRotationDirection = direction,
                                           !.uTimeOffset = timeOffset']
  /\ UNCHANGED <<args, rotationParams, controlPoints, probe, genVars, uiVars, frame,
                 heapVars, thrown>>

\* setRotationCurve(rPeak, rFlat, vMax) on a generated galaxy: the material has
\* no uniform uRPeak, so the first assignment throws a TypeError and the
\* rotation parameters are not reached
SetRotationCurve ==
  /\ EventsMayRun /\ material.set
  /\ thrown' = "TypeError"
  /\ UNCHANGED <<args, parameters, rotationParams, controlPoints, probe, genVars,
                 uiVars, matVars, heapVars>>

\* a galaxy built by createGalaxy(), animated and adjusted through its setters
ReversedArgs ==
  [count |-> 1, armCount |-> 0, randomness |-> 0, rotationDirection |-> 0 - S]
FrameArgs == {SpikeArgs, ZeroDensityArgs, ArmsArgs, ReversedArgs, NaNJitterArgs}
InitFrames == InitGalaxy(FrameArgs, {FreeSource}, "constructed")
NextFrames ==
  \/ Next
  \/ Frame
  \/ SetRotationSpeed
  \/ SetGlowIntensity
  \/ SetHaloSize
  \/ SetRotationDirection
  \/ SetRotationCurve
SpecFrames == InitFrames /\ [][NextFrames]_vars

\* const fn = editor.getCurve(): a caller keeps the returned function.  The
\* function closes over the editor, not over a copy of its control points;
\* "at" records the control points of the moment for the comparison only.
ObtainCurve ==
  /\ EventsMayRun
  /\ \E ed \in Editors :
        held' = [set |-> TRUE, ed |-> ed, at |-> controlPoints[ed]]
  /\ UNCHANGED <<args, parameters, rotationParams, controlPoints, probe, genVars,
                 selectedPoint, isDragging, rebuildTimeout, timerVars, matVars, heapVars,
                 thrown>>

\* fn(x) on the kept function: bezierPoint(t, this.controlPoints) reads the
\* editor's control points of the time of the call
CallHeld ==
  /\ EventsMayRun
  /\ held.set
  /\ \E x \in {0, 500, S} :
        probe' = [fn |-> "held", x |-> x, at |-> held.at,
                  result |-> getCurve(controlPoints[held.ed], x)]
  /\ UNCHANGED <<args, parameters, rotationParams, controlPoints, genVars, extVars>>

\* an editor on its own: drags of the first control point, setControlPoints
\* and a caller that keeps a curve function
ClosureMouseDown == onMouseDown({Mouse(0, 0)})
ClosureMouseMove == onMouseMove({Mouse(15, 15), Mouse(0, 30)})
ClosureSetControlPoints == setControlPoints(AppLists \cup {DefaultCurvePoints})
NextClosure ==
  \/ ClosureMouseDown
  \/ ClosureMouseMove
  \/ onMouseUp
  \/ ClosureSetControlPoints
  \/ ObtainCurve
  \/ CallHeld
SpecClosure == InitCurve /\ [][NextClosure]_vars

\* ------------------------------------------------------------------------
\* Claims
\* ------------------------------------------------------------------------
NoNaNIn(a) == \A k \in DOMAIN a : ~IsNaN(a[k])

\* C1: generate() publishes size, distance, angle, rotationSpeed, haloSize
\* and brightness arrays of exactly count entries and position and color
\* arrays of exactly 3 * count entries, and no published entry is NaN.
C1_PublishedLengthsNoNaN ==
  geometry.set =>
    /\ \A a \in {geometry.size, geometry.distance, geometry.angle,
                 geometry.rotationSpeed, geometry.haloSize, geometry.brightness} :
          Len(a) = parameters.count /\ NoNaNIn(a)
    /\ \A a \in {geometry.position, geometry.color} :
          Len(a) = 3 * parameters.count /\ NoNaNIn(a)

\* C1 witness: a published set of MaxCount particles whose NaN positions,
\* colors and distances were repaired
C1_Witness ==
  /\ geometry.set /\ parameters.count = MaxCount /\ IsNaN(parameters.randomness)
  /\ geometry.color[1] = 500 /\ geometry.distance[MaxCount] = 0


\* C2: generate() terminates for every density curve function (a spike the
\* scan sees, a spike it misses, 0 everywhere) and with or without the
\* spiral-arm filter: under fair random draws every started generate() call
\* reaches the end of the particle loop (i = count) and publishes.
C2_GenerateTerminates == (pc = "loop") ~> (pc = "done" /\ i = parameters.count)

\* C2 witness: a call completed with a density curve that is 0 everywhere
\* and the arm filter enabled
C2_Witness ==
  /\ pc = "done" /\ i = parameters.count
  /\ parameters.densityCurveFn = ConstFn(0) /\ FilterEnabled(parameters)

\* C3: the radius sampling of one candidate particle draws at most 100
\* rejection-sampling candidates; when none of the 100 is accepted the
\* radius is u * params.radius for one further draw u, and sampling goes on
\* to the angle (no error).
C3_BoundedRetriesThenFallback ==
  [][/\ attempts' <= maxAttempts
     /\ (pc = "reject" /\ ~accepted /\ pc' # "reject") =>
           /\ attempts = maxAttempts
           /\ pc' = "angle"
           /\ \E u \in RadiusDraws : radius' = FMul(u, parameters.radius)]_vars

\* C3 witness: 100 candidates drawn, none accepted
C3_Witness == pc = "reject" /\ attempts = maxAttempts /\ ~accepted

\* C4: for every control-point list with first.x = 0, last.x = 1 and y
\* values in [0,1] the
\* curve function returns, at input 0, the y of the first control point and,
\* at input 1, the y of the last control point.
C4_CurveEndpoints ==
  (/\ probe.fn = "curve"
   /\ probe.points[1].x = 0
   /\ probe.points[Len(probe.points)].x = S
   /\ \A k \in DOMAIN probe.points :
         FLe(0, probe.points[k].y) /\ FLe(probe.points[k].y, S)) =>
     /\ probe.x = 0 => probe.result = probe.points[1].y
     /\ probe.x = S => probe.result = probe.points[Len(probe.points)].y

\* C4 witness: a curve of MaxPoints points evaluated at 1, whose first and
\* last y differ
C4_Witness ==
  /\ probe.fn = "curve" /\ probe.x = S /\ Len(probe.points) = MaxPoints
  /\ probe.points[1].y = 0 /\ probe.points[MaxPoints].y = 700
  /\ probe.result = 700

\* the three-region profile of the physical radius R
C5_ReferenceProfile(R, vMax, rPeak, rFlat) ==
  IF FLt(R, rPeak) THEN FMul(vMax, FDiv(R, rPeak))
  ELSE IF FLt(R, rFlat) THEN vMax
  ELSE FMul(vMax, FSqrt(FDiv(rFlat, R)))

\* C5: with no rotation curve function and viscosity 0, calculateRotationSpeed
\* is the three-region profile of R = r / 0.1 with rPeak = 2 and rFlat = 8;
\* for vMax = 220 it is 110 at R = 1, 220 at R = 5 and 110 at R = 32, and it
\* is vMax at R = rPeak and at R = rFlat.
C5_ClosedFormProfile ==
  (/\ probe.fn = "speed"
   /\ parameters.rotationCurveFn = NoFn /\ parameters.viscosity = 0
   /\ ~IsNaN(probe.r) /\ probe.r >= 0) =>
     /\ probe.result =
          C5_ReferenceProfile(FDiv(probe.r, 100), rotationParams.vMax, 2 * S, 8 * S)
     /\ rotationParams.vMax = 220 * S =>
          /\ probe.r = 100 => probe.result = 110 * S
          /\ probe.r = 500 => probe.result = 220 * S
          /\ probe.r = 3200 => probe.result = 110 * S
     /\ probe.r \in {200, 800} => probe.result = rotationParams.vMax

\* C5 witness: the falloff region, R = 32 with vMax = 220
C5_Witness ==
  /\ probe.fn = "speed" /\ probe.r = 3200 /\ probe.result = 110 * S
  /\ parameters.rotationCurveFn = NoFn /\ parameters.viscosity = 0
  /\ rotationParams.vMax = 220 * S

\* C6: with viscosity = 0, calculateRotationSpeed returns the value of the
\* computation without the viscosity correction (the base speed, curve-driven
\* or closed-form, after the guards on r and on the result), for every
\* radius, angle and arm configuration.
C6_ZeroViscosityIsBase ==
  (probe.fn = "speed" /\ parameters.viscosity = 0) =>
     probe.result =
       IF IsNaN(probe.r) \/ FLt(probe.r, 0) THEN 0
       ELSE ClampSpeed(BaseSpeed(probe.r, parameters, rotationParams))

\* C6 witness: viscosity 0 on a galaxy with arms, at a point an arm
\* influences, with a rotation curve function
C6_Witness ==
  /\ probe.fn = "speed" /\ parameters.viscosity = 0 /\ parameters.armCount > 0
  /\ parameters.rotationCurveFn # NoFn
  /\ probe.result > 0
  /\ ArmInfluence(probe.r, probe.angle, parameters) > 0

\* C7: constructed with armCount = 0, the arm-density filter never rejects:
\* every (radius, angle) candidate goes on to become a particle, and the
\* particle index advances when the particle is complete, for every
\* armDensity.
C7_NoArmsNeverRejects ==
  [][("armCount" \in DOMAIN args /\ args.armCount = 0) =>
        /\ pc = "angle" => pc' = "place"
        /\ pc = "attrs" => (pc' = "loop" /\ i' = i + 1)]_vars

\* C7 witness: a candidate past the filter with armCount = 0 and
\* armDensity = 5
C7_Witness ==
  /\ "armCount" \in DOMAIN args /\ args.armCount = 0
  /\ parameters.armDensity = 5 * S
  /\ pc = "place"

\* C8: two runs of generate() with the same parameters and the same sequence
\* of random values publish the same arrays, entry by entry.
C8_SameDrawsSameParticles ==
  (pc = "done" /\ calls >= 2 /\ rng.mode = "seq") => geometry = first

\* C8 witness: the second run of a galaxy of MaxCount particles is complete
\* and the first particle is off the centre
C8_Witness ==
  /\ pc = "done" /\ calls = 2 /\ rng.mode = "seq"
  /\ first.set /\ geometry.set /\ parameters.count = MaxCount
  /\ geometry.distance[1] > 0

Between(v, a, b) == (a <= v /\ v <= b) \/ (b <= v /\ v <= a)

\* C9: for {radius: 5, armCount: 0, randomness: 0, densityPower: 1} and no
\* density curve, every stored distance is in [0, 5] and every color channel
\* is between the channels of insideColor and outsideColor.
C9_ScenarioBounds ==
  (args = ScenarioArgs /\ geometry.set) =>
     \A k \in 1..parameters.count :
        /\ ~IsNaN(geometry.distance[k])
        /\ 0 <= geometry.distance[k] /\ geometry.distance[k] <= 5 * S
        /\ \A c \in 1..3 :
             /\ ~IsNaN(geometry.color[3 * (k - 1) + c])
             /\ Between(geometry.color[3 * (k - 1) + c],
                        parameters.insideColor[c], parameters.outsideColor[c])

\* C9 witness: a published scenario whose last particle is near the edge and
\* whose color has left insideColor
C9_Witness ==
  /\ args = ScenarioArgs /\ geometry.set
  /\ geometry.distance[MaxCount] > 4 * S
  /\ geometry.color[3 * MaxCount] # parameters.insideColor[3]

\* C10: calculateRotationSpeed returns a value >= 0 that is not NaN; a NaN or
\* negative radius and a NaN or negative computed speed give 0.
C10_SpeedNeverNegativeOrNaN ==
  probe.fn = "speed" =>
     /\ ~IsNaN(probe.result) /\ probe.result >= 0
     /\ (IsNaN(probe.r) \/ probe.r < 0) => probe.result = 0
     /\ LET speed == CorrectedSpeed(probe.r, probe.angle, parameters, rotationParams)
        IN (IsNaN(speed) \/ speed < 0) => probe.result = 0

\* C10 witness: viscosity 1.5 on an arm, where the corrected speed is
\* negative
C10_Witness ==
  /\ probe.fn = "speed" /\ probe.r >= 0 /\ ~IsNaN(probe.r)
  /\ parameters.viscosity = 1500
  /\ CorrectedSpeed(probe.r, probe.angle, parameters, rotationParams) < 0
  /\ probe.result = 0

\* C11: once generate() has completed, a control-point edit (a drag move or
\* setControlPoints) leaves every published attribute array as it is; the
\* arrays a generate() call publishes carry the rotation speeds of the curve
\* as it is edited at that time.
C11_EditsLeaveGeneratedGalaxy ==
  [][/\ (pc = "done" /\ controlPoints' # controlPoints) => geometry' = geometry
     /\ (pc = "publish" /\ pc' = "done") =>
          \A k \in 1..parameters.count :
             geometry'.rotationSpeed[k] =
               calculateRotationSpeed(geometry'.distance[k], geometry'.angle[k],
                                      parameters, rotationParams)]_vars
\* an edited rotation curve next to a galaxy generated before the edit, whose
\* stored speed is not the one the edited curve gives
C11_Witness ==
  /\ pc = "done" /\ geometry.set
  /\ controlPoints["rotation"] # DefaultCurvePoints
  /\ \E k \in 1..parameters.count :
        geometry.rotationSpeed[k] #
          calculateRotationSpeed(geometry.distance[k], geometry.angle[k],
                                 [parameters EXCEPT !.rotationCurveFn =
                                    EditorFn("rotation", 0, 150 * S)],
                                 rotationParams)

\* C12: a curve function obtained from getCurve() and called after the
\* control points were changed returns the value determined by the control
\* points as they were when the function was obtained.
C12_HeldCurveIsStale ==
  probe.fn = "held" => probe.result = getCurve(probe.at, probe.x)

\* C13: the curve function returns a value in [0,1] for every input and every
\* control-point list; it returns 0 when the input is NaN, below 0 or above 1
\* and when the Bezier value is NaN; a Bezier value above 1 gives 1 and one
\* below 0 gives 0.
C13_CurveValueInUnitInterval ==
  probe.fn = "curve" =>
    LET x == probe.x
        y == bezierPointY(x, probe.points)
    IN /\ FLe(0, probe.result) /\ FLe(probe.result, S)
       /\ (IsNaN(x) \/ FLt(x, 0) \/ FGt(x, S)) => probe.result = 0
       /\ (FLe(0, x) /\ FLe(x, S)) =>
            /\ IsNaN(y) => probe.result = 0
            /\ FGt(y, S) => probe.result = S
            /\ FLt(y, 0) => probe.result = 0
            /\ (FLe(0, y) /\ FLe(y, S)) => probe.result = y
\* C13 witness: a Bezier value above 1 returned as 1
C13_Witness ==
  /\ probe.fn = "curve" /\ probe.x = 500
  /\ FGt(bezierPointY(probe.x, probe.points), S)
  /\ probe.result = S

\* C14: an input below 0 gives the result of input 0 and an input above 1
\* gives the result of input 1, for every control-point list.
C14_OutOfRangeInputIsBoundary ==
  probe.fn = "curve" =>
    /\ FLt(probe.x, 0) => probe.result = getCurve(probe.points, 0)
    /\ FGt(probe.x, S) => probe.result = getCurve(probe.points, S)

\* C15: a galaxy constructed with radius <= 0 or count <= 0 ends in an error
\* and publishes no particle set.
C15_DegenerateConfigurationRejected ==
  (FLe(parameters.radius, 0) \/ parameters.count <= 0) =>
     (~geometry.set /\ pc # "done")

\* the places the claimed formula gives at a frame, with the time t
C16_Expected(k, t) ==
  [angle |-> FAdd(geometry.angle[k],
                  FMul(FMul(t, FMul(geometry.rotationSpeed[k], 10)),
                       frame.rotationDirection)),
   radius |-> geometry.distance[k],
   y |-> geometry.position[3 * (k - 1) + 2]]

C18_SettersLeaveArrays ==
  [][(pc = "done" /\ pc' = "done" /\ geometry.set) =>
       /\ geometry'.rotationSpeed = geometry.rotationSpeed
       /\ geometry'.distance = geometry.distance
       /\ geometry'.angle = geometry.angle
       /\ geometry'.position = geometry.position
       /\ geometry'.color = geometry.color
       /\ geometry'.size = geometry.size
       /\ geometry'.haloSize = geometry.haloSize
       /\ geometry'.brightness = geometry.brightness]_vars
\* C18 witness: a generated galaxy with a rotating particle after frames and
\* calls of the setters
C18_Witness ==
  /\ pc = "done" /\ geometry.set /\ frame.set
  /\ material.uGlowIntensity = 3 * S /\ material.uHaloSize = S
  /\ thrown = "TypeError" /\ timeOffset # 0 /\ material.uTime = 0
  /\ \E k \in 1..parameters.count :
        geometry.rotationSpeed[k] > 0 /\ frame.shown[k].angle # geometry.angle[k]

\* C17: every generate() call allocates new arrays, so that a later call
\* never writes into an array an earlier call published: what the attributes
\* published by the first call hold is the same before and after every step
\* of every later call.
C17_EarlierArraysUntouched ==
  [][first.set => SeenThrough(firstId, first)' = SeenThrough(firstId, first)]_vars
\* C17 witness: the second generate() call has written a particle into its
\* arrays, next to the attributes the first call published
C17_Witness ==
  /\ first.set /\ calls = 2 /\ pc = "attrs"
  /\ positions # first.position
  /\ SeenThrough(firstId, first) = first

\* control points with first.x = 0, last.x = 1 and every coordinate in [0,1]
C19_Conforming(points) ==
  /\ points[1].x = 0 /\ points[Len(points)].x = S
  /\ \A k \in DOMAIN points :
        /\ FLe(0, points[k].x) /\ FLe(points[k].x, S)
        /\ FLe(0, points[k].y) /\ FLe(points[k].y, S)

C20_PublishedAttributesPositive ==
  (/\ geometry.set
   /\ FGt(parameters.radius, 0) /\ parameters.count > 0
   /\ FLe(parameters.brightnessRange[1], parameters.brightnessRange[2])
   /\ FLe(0, parameters.cloudRatio) /\ FLe(parameters.cloudRatio, S)) =>
     \A k \in 1..parameters.count :
        /\ FGt(geometry.size[k], 0)
        /\ FGt(geometry.haloSize[k], 0)
        /\ FGt(geometry.brightness[k], 0)
        /\ FLe(0, geometry.distance[k])


\* the entries of a' outside the indexes idxs are those of a
OnlyAt(a, b, idxs) ==
  /\ Len(b) = Len(a)
  /\ \A k \in DOMAIN a : k \notin idxs => b[k] = a[k]

\* C21: in the generation loop a candidate rejected by the spiral-arm filter
\* writes nothing to any output array and leaves the particle index
\* unchanged; only a kept candidate writes, and only the entries of particle
\* i; the index advances by exactly one per kept candidate, after its
\* entries are written, so each index in [0, count) is written by exactly
\* one kept candidate and a finished loop has produced count particles.
C21_RejectedCandidateWritesNothing ==
  [][/\ (pc = "angle" /\ ~shouldKeep') =>
          /\ i' = i /\ pc' = "loop"
          /\ UNCHANGED <<positions, colors, sizes, distances, angles,
                         rotationSpeeds, haloSizes, brightnesses>>
     /\ pc = "place" =>
          /\ shouldKeep /\ i < parameters.count /\ i' = i /\ pc' = "attrs"
          /\ OnlyAt(positions, positions', {3 * i + 1, 3 * i + 2, 3 * i + 3})
          /\ OnlyAt(colors, colors', {3 * i + 1, 3 * i + 2, 3 * i + 3})
          /\ OnlyAt(distances, distances', {i + 1})
          /\ OnlyAt(angles, angles', {i + 1})
          /\ OnlyAt(rotationSpeeds, rotationSpeeds', {i + 1})
          /\ UNCHANGED <<sizes, haloSizes, brightnesses>>
     /\ pc = "attrs" =>
          /\ shouldKeep /\ i' = i + 1
          /\ OnlyAt(sizes, sizes', {i + 1})
          /\ OnlyAt(haloSizes, haloSizes', {i + 1})
          /\ OnlyAt(brightnesses, brightnesses', {i + 1})
          /\ UNCHANGED <<positions, colors, distances, angles, rotationSpeeds>>
     /\ (pc \in {"loop", "reject", "angle"} /\ pc' # "publish") =>
          UNCHANGED <<i, positions, colors, sizes, distances, angles,
                      rotationSpeeds, haloSizes, brightnesses>>
     /\ pc' = "publish" => i = parameters.count /\ Len(sizes) = parameters.count
    ]_vars

\* C21 witness: the second of MaxCount particles was rejected by the filter
\* after the first was written
C21_Witness ==
  /\ pc = "loop" /\ ~shouldKeep /\ i = 1 /\ parameters.count = MaxCount
  /\ sizes[1] # 0 /\ sizes[2] = 0


\* the inputs at which generate() may call the density curve function
DensityInputs == {FDiv(k * S, 100 * S) : k \in 1..100} \cup RadiusDraws

\* C22: in density-curve radius sampling maxProbability is at least 0.001 at
\* every division, and for every density curve function that returns values
\* >= 0 the acceptance probability of every candidate lies in [0,1].
C22_AcceptProbabilityInUnitInterval ==
  (/\ pc = "reject"
   /\ \A x \in DensityInputs : FLe(0, ApplyFn(parameters.densityCurveFn, x))) =>
    /\ FLe(1, maxProbability)
    /\ \A c \in RadiusDraws :
         LET acceptProbability ==
               AcceptProbability(parameters.densityCurveFn, c, maxProbability)
         IN FLe(0, acceptProbability) /\ FLe(acceptProbability, S)


\* the step of generate() that is the sanitation pass
SanitationPass == pc = "loop" /\ pc' = "publish"

\* C23: after the sanitation pass of generate() an entry that was NaN holds
\* 0 for a position component, 0.5 for a color component, params.size for
\* size, params.haloSize for haloSize, 0 for distance, angle and rotation
\* speed, and 1.0 for brightness.
C23_RepairedEntriesHoldDefaults ==
  [][SanitationPass =>
       /\ \A k \in DOMAIN positions : IsNaN(positions[k]) => positions'[k] = 0
       /\ \A k \in DOMAIN colors : IsNaN(colors[k]) => colors'[k] = 500
       /\ \A k \in DOMAIN sizes : IsNaN(sizes[k]) => sizes'[k] = parameters.size
       /\ \A k \in DOMAIN haloSizes :
            IsNaN(haloSizes[k]) => haloSizes'[k] = parameters.haloSize
       /\ \A k \in DOMAIN distances : IsNaN(distances[k]) => distances'[k] = 0
       /\ \A k \in DOMAIN angles : IsNaN(angles[k]) => angles'[k] = 0
       /\ \A k \in DOMAIN rotationSpeeds :
            IsNaN(rotationSpeeds[k]) => rotationSpeeds'[k] = 0
       /\ \A k \in DOMAIN brightnesses :
            IsNaN(brightnesses[k]) => brightnesses'[k] = S
    ]_vars

\* C23 witness: the pass has run on a cloud particle whose halo size and
\* brightness were NaN
C23_Witness ==
  /\ pc = "publish" /\ IsNaN(parameters.cloudHaloMultiplier)
  /\ IsNaN(parameters.brightnessRange[1])
  /\ haloSizes[1] = parameters.haloSize /\ brightnesses[1] = S

\* C24 as stated: the sanitation pass changes NaN entries only; every entry
\* that is not NaN before the pass, the non-NaN components of a position or
\* color with a NaN component included, has the same value after it.
C24_OnlyNaNEntriesChange ==
  [][SanitationPass =>
       \A a \in {<<positions, positions'>>, <<colors, colors'>>, <<sizes, sizes'>>,
                 <<distances, distances'>>, <<angles, angles'>>,
                 <<rotationSpeeds, rotationSpeeds'>>, <<haloSizes, haloSizes'>>,
                 <<brightnesses, brightnesses'>>} :
         \A k \in DOMAIN a[1] : ~IsNaN(a[1][k]) => a[2][k] = a[1][k]
    ]_vars

\* the components of vector number v of a 3-vector array
Components(v) == {3 * v + 1, 3 * v + 2, 3 * v + 3}

\* C24 amended: the sanitation pass leaves every entry of a scalar array that
\* is not NaN unchanged and every position and color without a NaN
\* component unchanged; a position with a NaN component becomes (0, 0, 0)
\* and a color with a NaN component (0.5, 0.5, 0.5), the components that
\* were not NaN included.
C24_VectorsRepairedWhole ==
  [][SanitationPass =>
       /\ \A a \in {<<sizes, sizes'>>, <<distances, distances'>>, <<angles, angles'>>,
                    <<rotationSpeeds, rotationSpeeds'>>, <<haloSizes, haloSizes'>>,
                    <<brightnesses, brightnesses'>>} :
            \A k \in DOMAIN a[1] : ~IsNaN(a[1][k]) => a[2][k] = a[1][k]
       /\ \A a \in {<<positions, positions', 0>>, <<colors, colors', 500>>} :
            \A v \in 0..(parameters.count - 1) :
              IF \E k \in Components(v) : IsNaN(a[1][k])
                THEN \A k \in Components(v) : a[2][k] = a[3]
                ELSE \A k \in Components(v) : a[2][k] = a[1][k]
    ]_vars

\* C24 witness: the pass has run on a particle whose position had a NaN y
\* and whose color had a NaN red channel only
C24_Witness ==
  /\ pc = "publish" /\ parameters.radius = 0
  /\ positions = <<0, 0, 0>> /\ colors = <<500, 500, 500>>
  /\ distances[1] > 0

\* C25: for every particle of a published set the stored distanceFromCenter
\* equals sqrt(x^2 + z^2) of its stored position and the stored initialAngle
\* equals atan2(z, x) of it, also for particles altered by the sanitation
\* pass.
C25_DistanceAngleAgreeWithPosition ==
  geometry.set =>
    \A k \in 1..parameters.count :
      LET x == geometry.position[3 * k - 2]
          z == geometry.position[3 * k]
      IN /\ geometry.distance[k] = FSqrt(FAdd(FMul(x, x), FMul(z, z)))
         /\ geometry.angle[k] = FAtan2(z, x)

\* C26: for every sequence of random draws, a Box-Muller draw u1 = 0
\* included, every published position component is a finite number.
C26_PublishedPositionsFinite ==
  geometry.set => \A k \in DOMAIN geometry.position : IsFinite(geometry.position[k])


\* C27: for viscosity in [0,1] and armCount > 0 the viscosity correction
\* never increases the speed: for every radius and angle
\* calculateRotationSpeed returns a value between 0 and the uncorrected base
\* speed; and when viscosity <= 0 or armCount <= 0 the correction is
\* skipped: the value returned is the one the base speed gives.
C27_ViscosityNeverSpeedsUp ==
  probe.fn = "speed" =>
    LET base == BaseSpeed(probe.r, parameters, rotationParams)
        valid == ~IsNaN(probe.r) /\ ~FLt(probe.r, 0)
    IN /\ (/\ FLe(0, parameters.viscosity) /\ FLe(parameters.viscosity, S)
           /\ parameters.armCount > 0 /\ valid /\ ~IsNaN(base)) =>
             Between(probe.result, 0, base)
       /\ (FLe(parameters.viscosity, 0) \/ parameters.armCount <= 0) =>
             probe.result = IF valid THEN ClampSpeed(base) ELSE 0

\* C27 witness: a call with viscosity in (0,1] near an arm, where the speed
\* returned is below the base speed
C27_Witness ==
  /\ probe.fn = "speed" /\ parameters.armCount > 0
  /\ parameters.viscosity > 0 /\ parameters.viscosity <= S
  /\ probe.result < BaseSpeed(probe.r, parameters, rotationParams)
  /\ probe.result > 0


webglVars == <<args, parameters, rotationParams, controlPoints, probe, genVars, uiVars,
               matVars, alloc, firstId, thrown>>

\* GalaxyWebGPU.getPoints(): null without corePoints; otherwise a new Group
\* that gets the sprite Group and the Points as children. Object3D.add takes
\* an object out of the parent it had.
HasPoints(g) == g # 0 /\ corePoints[g] # 0
GroupsAfterGetPoints(g) == IF HasPoints(g) THEN Append(groups, g) ELSE groups
ParentsAfterGetPoints(g) ==
  IF HasPoints(g) THEN [parentOf EXCEPT ![corePoints[g]] = Len(groups) + 1] ELSE parentOf

\* this.scene.remove(oldPoints): the Group just made is no child of the scene
SceneAfterRemove(g) == IF HasPoints(g) THEN scene \ {Len(groups) + 1} ELSE scene

\* GalaxyWebGPU.dispose(): haloSprites.clear(), corePoints = null
LayersAfterDispose(g) ==
  IF HasPoints(g) THEN [layers EXCEPT ![corePoints[g]].sprites = FALSE] ELSE layers

\* GalaxySimulation.createGalaxy() of the WebGPU application: the old galaxy
\* is taken out of the scene and disposed; the constructor of the new one
\* starts a generate() call through the constructor of Galaxy, and
\* createGalaxy() starts the one whose completion it waits for
createGalaxyWebGPU ==
  /\ galaxy < MaxGalaxies
  /\ resolved = {}
  /\ groups' = GroupsAfterGetPoints(galaxy)
  /\ parentOf' = ParentsAfterGetPoints(galaxy)
  /\ scene' = SceneAfterRemove(galaxy)
  /\ layers' = LayersAfterDispose(galaxy)
  /\ corePoints' = IF galaxy # 0 THEN [corePoints EXCEPT ![galaxy] = 0] ELSE corePoints
  /\ galaxy' = galaxy + 1
  /\ pendingGenerate' = pendingGenerate \cup
        {[galaxy |-> galaxy + 1, then |-> FALSE], [galaxy |-> galaxy + 1, then |-> TRUE]}
  /\ UNCHANGED <<resolved, webglVars>>

\* a generate() call completes: new Points and a new sprite Group with one
\* sprite at least become this.corePoints and this.haloSprites of its own
\* instance; the completion createGalaxy() waits for queues its callback
generateCompletes ==
  /\ resolved = {}
  /\ \E call \in pendingGenerate :
        /\ pendingGenerate' = pendingGenerate \ {call}
        /\ layers' = Append(layers, [galaxy |-> call.galaxy, sprites |-> TRUE])
        /\ parentOf' = Append(parentOf, 0)
        /\ corePoints' = [corePoints EXCEPT ![call.galaxy] = Len(layers) + 1]
        /\ resolved' = IF call.then THEN {call} ELSE {}
  /\ UNCHANGED <<galaxy, groups, scene, webglVars>>

\* the callback of generate().then: what this.galaxy, the latest instance,
\* returns from getPoints() is added to the scene
generateThen ==
  /\ resolved # {}
  /\ resolved' = {}
  /\ groups' = GroupsAfterGetPoints(galaxy)
  /\ parentOf' = ParentsAfterGetPoints(galaxy)
  /\ scene' = IF HasPoints(galaxy) THEN scene \cup {Len(groups) + 1} ELSE scene
  /\ UNCHANGED <<galaxy, corePoints, pendingGenerate, layers, webglVars>>

\* the WebGPU application: createGalaxy() calls and the completions of the
\* generate() calls in every order
InitWebGPU == InitGalaxy({EditorArgs}, {FreeSource}, "constructed")
NextWebGPU ==
  \/ createGalaxyWebGPU
  \/ generateCompletes
  \/ generateThen
SpecWebGPU == InitWebGPU /\ [][NextWebGPU]_vars

\* a change of a generation parameter or of a curve
ParameterChange == SliderInput \/ ResetClick \/ CurveMouseMove

\* C29: regeneration is debounced: each parameter or curve change cancels
\* the pending rebuild timer and starts a new 300 ms one, createGalaxy() is
\* called only 300 ms after the last change, and once 300 ms have passed
\* since the last change of a burst (consecutive changes less than 300 ms
\* apart) the burst has caused exactly one createGalaxy() call.
C29_BurstRebuildsOnce ==
  [][/\ ParameterChange => (rebuildTimeout' = "pending" /\ timerLeft' = rebuildDelay)
     /\ (pc = "done" /\ pc' = "constructed") => sinceChange = rebuildDelay
     /\ (pc = "done" /\ calls >= 2 /\ sinceChange = rebuildDelay /\ ~TimerDue) =>
          built = 1
    ]_vars

\* instances with Points or sprites in a Group of the scene
RenderedGalaxies ==
  {layers[l].galaxy : l \in {k \in 1..Len(layers) : parentOf[k] \in scene}}

\* no generate() call is pending and no callback is waiting
GenerationsDone == galaxy # 0 /\ pendingGenerate = {} /\ resolved = {}

\* C30: in the WebGPU application, in every order of createGalaxy() calls
\* and generate() completions, the scene never holds renderable objects of
\* more than one galaxy, and once every generation has completed it holds
\* exactly one object, which belongs to the latest galaxy.
C30_SceneHoldsOneGalaxy ==
  /\ Cardinality(RenderedGalaxies) <= 1
  /\ GenerationsDone =>
        /\ Cardinality(scene) = 1
        /\ \A n \in scene : groups[n] = galaxy
====
